---- MODULE Spec2Model ----
(***************************************************************************)
(* Inventory ledger and credit settlement of the hardware-shop backend.    *)
(*                                                                         *)
(* The tables of models.sql / add_payment_tracking.sql are the variables;  *)
(* every row carries its primary key in the field id.  Each call the       *)
(* controllers make on supabaseAdmin is one statement that the database    *)
(* runs atomically together with the triggers and the referential actions  *)
(* it fires, so each such call is one step; a handler is the sequence of   *)
(* its calls, and the steps of different requests interleave.              *)
(* Quantities and amounts are integers (units of the smallest fraction).   *)
(***************************************************************************)
EXTENDS Integers, FiniteSets, Sequences, TLC

(***************************************************************************)
(* Bounds of the model.                                                    *)
(***************************************************************************)
NumRequests == 2
MaxProducts == 2
MaxSales == 1
MaxPurchases == 1
MaxAdjustments == 1
MaxCreditSales == 1
MaxPayments == 2
MaxCustomers == 1

NULL == 0

Requests == 1..NumRequests
ProductIds == 1..MaxProducts

VARIABLES
    products,           \* rows of products: [id, sku, is_active, purchase_price, retail_price, wholesale_price]
    suppliers,          \* rows of suppliers: [id, is_active]
    inventory,          \* rows of inventory: [product_id, quantity]
    stock_movements,    \* rows of stock_movements
    customers,          \* rows of customers: [id, credit_limit, current_balance]
    sales,              \* rows of sales
    sale_items,         \* rows of sale_items
    purchases,          \* rows of purchases
    purchase_items,     \* rows of purchase_items
    customer_payments,  \* rows of customer_payments
    next_id,            \* next primary key of each table
    pc,                 \* the call each request is about to make
    req,                \* body and locals of each request in progress
    response            \* the response the last step sent, if it sent one

tables == <<products, suppliers, inventory, stock_movements, customers, sales,
            sale_items, purchases, purchase_items, customer_payments>>
vars == <<products, suppliers, inventory, stock_movements, customers, sales,
          sale_items, purchases, purchase_items, customer_payments, next_id, pc, req, response>>

(***************************************************************************)
(* Sums over rows.                                                         *)
(***************************************************************************)
RECURSIVE SumQuantityChange(_)
SumQuantityChange(rows) ==
    IF rows = {} THEN 0
    ELSE LET m == CHOOSE x \in rows : TRUE
         IN  m.quantity_change + SumQuantityChange(rows \ {m})

RECURSIVE SumAmount(_)
SumAmount(rows) ==
    IF rows = {} THEN 0
    ELSE LET p == CHOOSE x \in rows : TRUE
         IN  p.amount + SumAmount(rows \ {p})

RECURSIVE SumRemaining(_)
SumRemaining(rows) ==
    IF rows = {} THEN 0
    ELSE LET s == CHOOSE x \in rows : TRUE
         IN  (s.total_amount - s.amount_paid) + SumRemaining(rows \ {s})

RECURSIVE SumLineTotal(_)
SumLineTotal(items) ==
    IF items = <<>> THEN 0
    ELSE Head(items).line_total + SumLineTotal(Tail(items))

Range(f) == {f[i] : i \in DOMAIN f}

(***************************************************************************)
(* Row lookups.                                                            *)
(***************************************************************************)
HasRow(rows, id) == \E x \in rows : x.id = id
Row(rows, id) == CHOOSE x \in rows : x.id = id

HasInventory(p) == \E x \in inventory : x.product_id = p
InventoryRow(p) == CHOOSE x \in inventory : x.product_id = p
\* inventory?.quantity ?? 0
StockOf(inv, p) ==
    IF \E x \in inv : x.product_id = p
    THEN (CHOOSE x \in inv : x.product_id = p).quantity
    ELSE 0

(***************************************************************************)
(* Primary keys.  gen_random_uuid() gives a row a key no other row of its  *)
(* table has; the model takes the next number for the rows a request       *)
(* inserts one at a time, and derives the key of an item from its header   *)
(* and the key of a movement from its source.                              *)
(***************************************************************************)
MaxItems == 2
ItemId(header_id, k) == (header_id - 1) * MaxItems + k
SaleMovementId(sale_item_id) == 3 * sale_item_id
PurchaseMovementId(purchase_item_id) == 3 * purchase_item_id + 1
AdjustmentMovementId(n) == 3 * n + 2

NoReason == "null"
AdjustmentReasons == {"expired", "damaged", "lost", "theft", "correction", "breakage"}
UnpaidStatuses == {"pending", "partial"}

(***************************************************************************)
(* Triggers and constraints of models.sql.                                 *)
(***************************************************************************)
\* The constraints as they would be without check_single_reference: only the
\* CHECK on adjustment_reason is left.  MovementProvenance does not survive it.
CheckAdjustmentReasonOnly(m) ==
    \/ m.movement_type = "adjustment" /\ m.adjustment_reason \in AdjustmentReasons
    \/ m.movement_type # "adjustment" /\ m.adjustment_reason = NoReason

\* CHECK on adjustment_reason and CONSTRAINT check_single_reference
CheckSingleReference(m) ==
    /\ \/ m.movement_type = "adjustment" /\ m.adjustment_reason \in AdjustmentReasons
       \/ m.movement_type # "adjustment" /\ m.adjustment_reason = NoReason
    /\ \/ m.movement_type = "purchase" /\ m.purchase_item_id # NULL /\ m.sale_item_id = NULL
       \/ m.movement_type = "sale" /\ m.sale_item_id # NULL /\ m.purchase_item_id = NULL
       \/ m.movement_type = "adjustment" /\ m.sale_item_id = NULL /\ m.purchase_item_id = NULL

\* The upsert as it would be with DO UPDATE SET quantity = EXCLUDED.quantity: the
\* movement replaces the quantity instead of being added to it.
\* InventoryMatchesMovements does not survive it.
UpdateInventoryOverwrite(inv, new) ==
    {x \in inv : x.product_id # new.product_id} \cup
        {[product_id |-> new.product_id, quantity |-> new.quantity_change]}

\* update_inventory_from_stock_movement, AFTER INSERT ON stock_movements:
\* INSERT INTO inventory ... ON CONFLICT (product_id) DO UPDATE SET quantity = inventory.quantity + NEW.quantity_change
UpdateInventoryFromStockMovement(inv, new) ==
    IF \E x \in inv : x.product_id = new.product_id
    THEN {IF x.product_id = new.product_id
          THEN [x EXCEPT !.quantity = @ + new.quantity_change]
          ELSE x : x \in inv}
    ELSE inv \cup {[product_id |-> new.product_id, quantity |-> new.quantity_change]}

\* the trigger fired once for each row of a multi-row insert
RECURSIVE UpdateInventoryForEachRow(_, _)
UpdateInventoryForEachRow(inv, movs) ==
    IF movs = <<>> THEN inv
    ELSE UpdateInventoryForEachRow(UpdateInventoryFromStockMovement(inv, Head(movs)), Tail(movs))

\* The trigger as it would be with NEW.quantity in place of -NEW.quantity.
\* OneMovementPerSaleItem does not survive it.
CreateStockMovementFromSaleUnsigned(new) ==
    [id |-> SaleMovementId(new.id), product_id |-> new.product_id, movement_type |-> "sale",
     sale_item_id |-> new.id, purchase_item_id |-> NULL,
     adjustment_reason |-> NoReason, quantity_change |-> new.quantity]

\* create_stock_movement_from_sale, AFTER INSERT ON sale_items
CreateStockMovementFromSale(new) ==
    [id |-> SaleMovementId(new.id), product_id |-> new.product_id, movement_type |-> "sale",
     sale_item_id |-> new.id, purchase_item_id |-> NULL,
     adjustment_reason |-> NoReason, quantity_change |-> -new.quantity]

\* The trigger as it would be with -NEW.quantity, as for a sale.
\* PurchaseAddsStock does not survive it.
CreateStockMovementFromPurchaseNegated(new) ==
    [id |-> PurchaseMovementId(new.id), product_id |-> new.product_id, movement_type |-> "purchase",
     sale_item_id |-> NULL, purchase_item_id |-> new.id,
     adjustment_reason |-> NoReason, quantity_change |-> -new.quantity]

\* create_stock_movement_from_purchase, AFTER INSERT ON purchase_items
CreateStockMovementFromPurchase(new) ==
    [id |-> PurchaseMovementId(new.id), product_id |-> new.product_id, movement_type |-> "purchase",
     sale_item_id |-> NULL, purchase_item_id |-> new.id,
     adjustment_reason |-> NoReason, quantity_change |-> new.quantity]

(***************************************************************************)
(* Triggers of add_payment_tracking.sql.                                   *)
(***************************************************************************)
\* SELECT COALESCE(SUM(s.total_amount - COALESCE(s.amount_paid, 0)), 0) FROM sales s
\* WHERE s.customer_id = c AND s.payment_status IN ('pending', 'partial')
OutstandingOf(sls, c) ==
    SumRemaining({s \in sls : s.customer_id = c /\ s.payment_status \in UnpaidStatuses})

SetCurrentBalance(custs, sls, c) ==
    {IF x.id = c THEN [x EXCEPT !.current_balance = OutstandingOf(sls, c)] ELSE x : x \in custs}

\* The derivation as it would be with v_amount_paid > v_total_amount in the
\* first branch: a sale paid exactly in full stays partial.
\* RecordedPaymentDerivesStatus does not survive it.
DerivedStatusStrict(v_amount_paid, v_total_amount) ==
    IF v_amount_paid > v_total_amount THEN "paid"
    ELSE IF v_amount_paid > 0 THEN "partial"
    ELSE "pending"

\* the IF .. ELSIF .. ELSE of update_sale_payment_status
DerivedStatus(v_amount_paid, v_total_amount) ==
    IF v_amount_paid >= v_total_amount THEN "paid"
    ELSE IF v_amount_paid > 0 THEN "partial"
    ELSE "pending"

\* update_sale_payment_status; new_sale_id is NEW.sale_id
UpdateSalePaymentStatus(sls, pays, new_sale_id) ==
    LET v_amount_paid == SumAmount({p \in pays : p.sale_id = new_sale_id})
    IN  {IF s.id = new_sale_id
         THEN [s EXCEPT !.payment_status = DerivedStatus(v_amount_paid, s.total_amount),
                        !.amount_paid = v_amount_paid]
         ELSE s : s \in sls}

\* update_customer_balance_on_payment; new_sale_id is NEW.sale_id
UpdateCustomerBalanceOnPayment(custs, sls, new_sale_id) ==
    IF HasRow(sls, new_sale_id) /\ Row(sls, new_sale_id).customer_id # NULL
    THEN SetCurrentBalance(custs, sls, Row(sls, new_sale_id).customer_id)
    ELSE custs

\* update_customer_balance_on_sale; new is the inserted or updated sales row
UpdateCustomerBalanceOnSale(custs, sls, new) ==
    IF new.customer_id # NULL /\ new.payment_status \in UnpaidStatuses
    THEN SetCurrentBalance(custs, sls, new.customer_id)
    ELSE custs

\* NEW.sale_id as the row triggers of customer_payments see it: the functions
\* read NEW also when fired AFTER DELETE, where NEW is null
NewSaleId(tg_op, row) == IF tg_op = "DELETE" THEN NULL ELSE row.sale_id

\* The AFTER ROW triggers of customer_payments for one row, fired in the order
\* of their names (update_customer_balance_on_payment_* before
\* update_sale_payment_on_payment_*); the UPDATE of sales made by the second
\* fires update_customer_balance_on_sale_update when status or amount_paid changed.
\* Result: <<customers, sales>>.
FirePaymentTriggers(custs, sls, pays, tg_op, row) ==
    LET sid    == NewSaleId(tg_op, row)
        custs1 == UpdateCustomerBalanceOnPayment(custs, sls, sid)
        sls1   == UpdateSalePaymentStatus(sls, pays, sid)
        custs2 == IF HasRow(sls, sid) /\ Row(sls1, sid) # Row(sls, sid)
                  THEN UpdateCustomerBalanceOnSale(custs1, sls1, Row(sls1, sid))
                  ELSE custs1
    IN  <<custs2, sls1>>

(***************************************************************************)
(* Requests.  A slot that is idle or has responded can take the next       *)
(* request; a response names the operation, its outcome and the keys the   *)
(* handler worked on.                                                      *)
(***************************************************************************)
Free(r) == pc[r] \in {"idle", "done"}
InFlight(labels) == Cardinality({r \in DOMAIN pc : pc[r] \in labels})

NoRequest == [op |-> "none"]
NoResponse == [op |-> "none", result |-> "none", request |-> 0]

Respond(r, res) ==
    /\ pc' = [pc EXCEPT ![r] = "done"]
    /\ req' = [req EXCEPT ![r] = NoRequest]
    /\ response' = res @@ [request |-> r]

Goto(r, label, locals) ==
    /\ pc' = [pc EXCEPT ![r] = label]
    /\ req' = [req EXCEPT ![r] = locals]
    /\ response' = NoResponse

NoPrice == -1

(***************************************************************************)
(* createProduct, product.controller.ts                                    *)
(***************************************************************************)
\* the checks before the first write and the duplicate-SKU query
CreateProductBegin(r, data) ==
    /\ Free(r)
    /\ IF data.has_quantity
       THEN Respond(r, [op |-> "createProduct", result |-> "quantity_not_allowed"])
       ELSE IF data.retail_price < data.purchase_price
       THEN Respond(r, [op |-> "createProduct", result |-> "invalid_price"])
       ELSE IF data.wholesale_price # NoPrice /\ data.wholesale_price > data.retail_price
       THEN Respond(r, [op |-> "createProduct", result |-> "invalid_price"])
       ELSE IF \E x \in products : x.sku = data.sku
       THEN Respond(r, [op |-> "createProduct", result |-> "duplicate_sku"])
       ELSE Goto(r, "cp_product", [op |-> "createProduct", data |-> data])
    /\ UNCHANGED <<tables, next_id>>

\* insert into products (sku is UNIQUE)
CreateProductInsert(r, fail) ==
    /\ pc[r] = "cp_product"
    /\ LET data == req[r].data
           id   == next_id.product
       IN  IF fail \/ \E x \in products : x.sku = data.sku
           THEN /\ Respond(r, [op |-> "createProduct", result |-> "product_failed"])
                /\ UNCHANGED <<products, next_id>>
           ELSE /\ products' = products \cup
                       {[id |-> id, sku |-> data.sku, is_active |-> data.is_active,
                         purchase_price |-> data.purchase_price,
                         retail_price |-> data.retail_price,
                         wholesale_price |-> data.wholesale_price]}
                /\ next_id' = [next_id EXCEPT !.product = @ + 1]
                /\ Goto(r, "cp_inventory", [op |-> "createProduct", product_id |-> id])
    /\ UNCHANGED <<suppliers, inventory, stock_movements, customers, sales, sale_items,
                   purchases, purchase_items, customer_payments>>

\* insert into inventory (product_id, quantity: 0); product_id is UNIQUE
CreateProductInventory(r, fail) ==
    /\ pc[r] = "cp_inventory"
    /\ LET id == req[r].product_id
       IN  IF fail \/ HasInventory(id) \/ ~HasRow(products, id)
           THEN /\ Goto(r, "cp_rollback", req[r])
                /\ UNCHANGED inventory
           ELSE /\ inventory' = inventory \cup {[product_id |-> id, quantity |-> 0]}
                /\ Respond(r, [op |-> "createProduct", result |-> "created", product_id |-> id])
    /\ UNCHANGED <<products, suppliers, stock_movements, customers, sales, sale_items,
                   purchases, purchase_items, customer_payments, next_id>>

\* DELETE FROM products: refused while sale_items or purchase_items reference
\* the product, cascades to inventory and stock_movements
DeleteProductRow(id) ==
    IF \/ \E i \in sale_items : i.product_id = id
       \/ \E i \in purchase_items : i.product_id = id
    THEN UNCHANGED <<products, inventory, stock_movements>>
    ELSE /\ products' = {x \in products : x.id # id}
         /\ inventory' = {x \in inventory : x.product_id # id}
         /\ stock_movements' = {m \in stock_movements : m.product_id # id}

\* "Rollback: delete the product"; the outcome of the delete is not looked at
CreateProductRollback(r, fail) ==
    /\ pc[r] = "cp_rollback"
    /\ IF fail
       THEN UNCHANGED <<products, inventory, stock_movements>>
       ELSE DeleteProductRow(req[r].product_id)
    /\ Respond(r, [op |-> "createProduct", result |-> "inventory_failed",
                   product_id |-> req[r].product_id])
    /\ UNCHANGED <<suppliers, customers, sales, sale_items, purchases, purchase_items,
                   customer_payments, next_id>>

(***************************************************************************)
(* createStockAdjustment, stockMovement.controller.ts                      *)
(***************************************************************************)
\* the checks on the body and the product query
CreateStockAdjustmentBegin(r, data) ==
    /\ Free(r)
    /\ IF data.movement_type # "adjustment"
       THEN Respond(r, [op |-> "createStockAdjustment", result |-> "not_adjustment"])
       ELSE IF data.adjustment_reason = NoReason
       THEN Respond(r, [op |-> "createStockAdjustment", result |-> "reason_required"])
       ELSE IF data.sale_item_id # NULL \/ data.purchase_item_id # NULL
       THEN Respond(r, [op |-> "createStockAdjustment", result |-> "reference_not_allowed"])
       ELSE IF ~HasRow(products, data.product_id)
       THEN Respond(r, [op |-> "createStockAdjustment", result |-> "product_not_found"])
       ELSE IF ~Row(products, data.product_id).is_active
       THEN Respond(r, [op |-> "createStockAdjustment", result |-> "product_inactive"])
       ELSE Goto(r, "sa_inventory", [op |-> "createStockAdjustment", data |-> data])
    /\ UNCHANGED <<tables, next_id>>

\* The check as it would be without the exemption of corrections.
\* AdjustmentBoundary does not survive it.
WouldGoNegativeAnyReason(currentStock, data) ==
    currentStock + data.quantity_change < 0

\* newStock < 0 && adjustment_reason !== CORRECTION
WouldGoNegative(currentStock, data) ==
    currentStock + data.quantity_change < 0 /\ data.adjustment_reason # "correction"

\* the inventory query and the negative-stock check
CreateStockAdjustmentCheck(r) ==
    /\ pc[r] = "sa_inventory"
    /\ LET data == req[r].data
           currentStock == StockOf(inventory, data.product_id)
       IN  IF WouldGoNegative(currentStock, data)
           THEN Respond(r, [op |-> "createStockAdjustment", result |-> "negative_stock"])
           ELSE Goto(r, "sa_insert", req[r])
    /\ UNCHANGED <<tables, next_id>>

\* insert into stock_movements, which fires update_inventory_on_stock_movement
CreateStockAdjustmentInsert(r, fail) ==
    /\ pc[r] = "sa_insert"
    /\ LET data == req[r].data
           m == [id |-> AdjustmentMovementId(next_id.adjustment), product_id |-> data.product_id,
                 movement_type |-> "adjustment", sale_item_id |-> NULL,
                 purchase_item_id |-> NULL, adjustment_reason |-> data.adjustment_reason,
                 quantity_change |-> data.quantity_change]
       IN  IF fail \/ ~HasRow(products, data.product_id) \/ ~CheckSingleReference(m)
           THEN /\ Respond(r, [op |-> "createStockAdjustment", result |-> "insert_failed"])
                /\ UNCHANGED <<stock_movements, inventory, next_id>>
           ELSE /\ stock_movements' = stock_movements \cup {m}
                /\ inventory' = UpdateInventoryFromStockMovement(inventory, m)
                /\ next_id' = [next_id EXCEPT !.adjustment = @ + 1]
                /\ Respond(r, [op |-> "createStockAdjustment", result |-> "created",
                               movement_id |-> m.id])
    /\ UNCHANGED <<products, suppliers, customers, sales, sale_items, purchases,
                   purchase_items, customer_payments>>

(***************************************************************************)
(* createSale, sale.controller.ts                                          *)
(***************************************************************************)
Undefined == -1

\* .from('products').select(...).in('id', productIds)
ProductsIn(items) == {p \in products : \E k \in DOMAIN items : items[k].product_id = p.id}

\* The checks as they would be without the filter on is_active.
\* InvalidProductRejected does not survive it.
CreateSaleBeginAnyStatus(r, data, items) ==
    /\ Free(r)
    /\ IF items = <<>>
       THEN Respond(r, [op |-> "createSale", result |-> "no_items"])
       ELSE IF Cardinality(ProductsIn(items)) # Len(items)
       THEN Respond(r, [op |-> "createSale", result |-> "products_not_found"])
       ELSE Goto(r, "cs_inventory", [op |-> "createSale", data |-> data, items |-> items])
    /\ UNCHANGED <<tables, next_id>>

\* the checks on the body and the products query
CreateSaleBegin(r, data, items) ==
    /\ Free(r)
    /\ IF items = <<>>
       THEN Respond(r, [op |-> "createSale", result |-> "no_items"])
       ELSE IF Cardinality(ProductsIn(items)) # Len(items)
       THEN Respond(r, [op |-> "createSale", result |-> "products_not_found"])
       ELSE IF \E p \in ProductsIn(items) : ~p.is_active
       THEN Respond(r, [op |-> "createSale", result |-> "inactive_product"])
       ELSE Goto(r, "cs_inventory", [op |-> "createSale", data |-> data, items |-> items])
    /\ UNCHANGED <<tables, next_id>>

\* The stock check as it would be if it refused a sale only when every item
\* asks for more than the stock.  OversoldSaleRejected does not survive it.
InsufficientStockOfAll(inv, items) ==
    \A k \in DOMAIN items : items[k].quantity > StockOf(inv, items[k].product_id)

\* for (const item of items) { if (item.quantity > availableStock) ... }
InsufficientStock(inv, items) ==
    \E k \in DOMAIN items : items[k].quantity > StockOf(inv, items[k].product_id)

\* the inventory query and the stock check
CreateSaleCheckStock(r) ==
    /\ pc[r] = "cs_inventory"
    /\ IF InsufficientStock(inventory, req[r].items)
       THEN Respond(r, [op |-> "createSale", result |-> "insufficient_stock"])
       ELSE Goto(r, "cs_sale", req[r])
    /\ UNCHANGED <<tables, next_id>>

\* The payload as it would be if only the payment method decided: a walk-in
\* sale by a non-cash method is stored as pending with nothing paid.
\* NewSaleIsPaidOrPending does not survive it.
SalePayloadByMethodOnly(id, data, items) ==
    LET subtotal       == SumLineTotal(items)
        discountAmount == IF data.discount_amount = Undefined THEN 0 ELSE data.discount_amount
        totalAmount    == subtotal - discountAmount
        paymentMethod  == IF data.payment_method = "undefined" THEN "cash" ELSE data.payment_method
        isCashPayment  == paymentMethod = "cash"
    IN  [id |-> id, customer_id |-> data.customer_id, subtotal |-> subtotal,
         discount_amount |-> discountAmount, total_amount |-> totalAmount,
         payment_method |-> paymentMethod,
         payment_status |-> IF isCashPayment THEN "paid" ELSE "pending",
         amount_paid |-> IF isCashPayment THEN totalAmount ELSE 0]

\* salePayload
SalePayload(id, data, items) ==
    LET subtotal       == SumLineTotal(items)
        discountAmount == IF data.discount_amount = Undefined THEN 0 ELSE data.discount_amount
        totalAmount    == subtotal - discountAmount
        paymentMethod  == IF data.payment_method = "undefined" THEN "cash" ELSE data.payment_method
        isCashPayment  == paymentMethod = "cash"
        hasCustomer    == data.customer_id # NULL
    IN  [id |-> id, customer_id |-> data.customer_id, subtotal |-> subtotal,
         discount_amount |-> discountAmount, total_amount |-> totalAmount,
         payment_method |-> paymentMethod,
         payment_status |-> IF isCashPayment \/ ~hasCustomer THEN "paid" ELSE "pending",
         amount_paid |-> IF isCashPayment \/ ~hasCustomer THEN totalAmount ELSE 0]

\* insert into sales (customer_id REFERENCES customers), which fires
\* update_customer_balance_on_sale_insert
CreateSaleInsertSale(r, fail) ==
    /\ pc[r] = "cs_sale"
    /\ LET new == SalePayload(next_id.sale, req[r].data, req[r].items)
       IN  IF fail \/ (new.customer_id # NULL /\ ~HasRow(customers, new.customer_id))
           THEN /\ Respond(r, [op |-> "createSale", result |-> "sale_failed"])
                /\ UNCHANGED <<sales, customers, next_id>>
           ELSE /\ sales' = sales \cup {new}
                /\ customers' = UpdateCustomerBalanceOnSale(customers, sales', new)
                /\ next_id' = [next_id EXCEPT !.sale = @ + 1]
                /\ Goto(r, "cs_items", [op |-> "createSale", sale_id |-> new.id,
                                        items |-> req[r].items])
    /\ UNCHANGED <<products, suppliers, inventory, stock_movements, sale_items,
                   purchases, purchase_items, customer_payments>>

\* const saleItems = items.map(...), with the keys the insert gives the rows
SaleItemRows(sale_id, items) ==
    [k \in DOMAIN items |->
        [id |-> ItemId(sale_id, k), sale_id |-> sale_id, product_id |-> items[k].product_id,
         quantity |-> items[k].quantity, line_total |-> items[k].line_total]]

\* insert into sale_items; every row fires create_stock_movement_on_sale_item,
\* whose insert fires update_inventory_on_stock_movement
CreateSaleInsertItems(r, fail) ==
    /\ pc[r] = "cs_items"
    /\ LET rows == SaleItemRows(req[r].sale_id, req[r].items)
           movs == [k \in DOMAIN rows |-> CreateStockMovementFromSale(rows[k])]
       IN  IF \/ fail
              \/ ~HasRow(sales, req[r].sale_id)
              \/ \E k \in DOMAIN rows : ~HasRow(products, rows[k].product_id)
              \/ \E k \in DOMAIN movs : ~CheckSingleReference(movs[k])
           THEN /\ Goto(r, "cs_rollback", [op |-> "createSale", sale_id |-> req[r].sale_id])
                /\ UNCHANGED <<sale_items, stock_movements, inventory>>
           ELSE /\ sale_items' = sale_items \cup Range(rows)
                /\ stock_movements' = stock_movements \cup Range(movs)
                /\ inventory' = UpdateInventoryForEachRow(inventory, movs)
                /\ Respond(r, [op |-> "createSale", result |-> "created",
                               sale_id |-> req[r].sale_id])
    /\ UNCHANGED <<products, suppliers, customers, sales, purchases, purchase_items,
                   customer_payments, next_id>>

\* DELETE FROM sales WHERE id = ...: deletes the sale_items (ON DELETE CASCADE),
\* which sets sale_item_id of their stock_movements to NULL (ON DELETE SET NULL);
\* a movement of type sale with a NULL sale_item_id violates
\* check_single_reference, and the statement fails as a whole.
SaleDeleteRefused(id) ==
    \E i \in sale_items : i.sale_id = id /\
        \E m \in stock_movements : m.sale_item_id = i.id /\
            ~CheckSingleReference([m EXCEPT !.sale_item_id = NULL])

\* The delete when it is not refused: the sale, its items and its payments
\* (ON DELETE CASCADE) go, and the movements of the items lose their
\* sale_item_id (ON DELETE SET NULL).  No trigger is defined for DELETE ON
\* sales, and the triggers of the deleted customer_payments rows read NEW,
\* which is null.
DeleteSaleRow(id) ==
    /\ sales' = {s \in sales : s.id # id}
    /\ sale_items' = {i \in sale_items : i.sale_id # id}
    /\ customer_payments' = {p \in customer_payments : p.sale_id # id}
    /\ stock_movements' =
           {IF \E i \in sale_items : i.sale_id = id /\ m.sale_item_id = i.id
            THEN [m EXCEPT !.sale_item_id = NULL] ELSE m : m \in stock_movements}

\* "Rollback: delete the sale"; the outcome of the delete is not looked at
CreateSaleRollback(r, fail) ==
    /\ pc[r] = "cs_rollback"
    /\ IF fail \/ SaleDeleteRefused(req[r].sale_id)
       THEN UNCHANGED <<sales, sale_items, customer_payments, stock_movements>>
       ELSE DeleteSaleRow(req[r].sale_id)
    /\ Respond(r, [op |-> "createSale", result |-> "items_failed", sale_id |-> req[r].sale_id])
    /\ UNCHANGED <<products, suppliers, inventory, customers,
                   purchases, purchase_items, next_id>>

(***************************************************************************)
(* deleteSale, sale.controller.ts                                          *)
(***************************************************************************)
\* the existence query
DeleteSaleBegin(r, id) ==
    /\ Free(r)
    /\ IF ~HasRow(sales, id)
       THEN Respond(r, [op |-> "deleteSale", result |-> "not_found", sale_id |-> id])
       ELSE Goto(r, "ds_delete", [op |-> "deleteSale", sale_id |-> id])
    /\ UNCHANGED <<tables, next_id>>

\* the delete
DeleteSaleDelete(r, fail) ==
    /\ pc[r] = "ds_delete"
    /\ IF fail \/ SaleDeleteRefused(req[r].sale_id)
       THEN /\ Respond(r, [op |-> "deleteSale", result |-> "delete_failed",
                           sale_id |-> req[r].sale_id])
            /\ UNCHANGED <<sales, sale_items, customer_payments, stock_movements>>
       ELSE /\ DeleteSaleRow(req[r].sale_id)
            /\ Respond(r, [op |-> "deleteSale", result |-> "deleted",
                           sale_id |-> req[r].sale_id])
    /\ UNCHANGED <<products, suppliers, inventory, customers,
                   purchases, purchase_items, next_id>>

(***************************************************************************)
(* createPurchase, purchase.controller.ts                                  *)
(***************************************************************************)
\* the checks on the body and the supplier query
CreatePurchaseBegin(r, data, items) ==
    /\ Free(r)
    /\ IF items = <<>>
       THEN Respond(r, [op |-> "createPurchase", result |-> "no_items"])
       ELSE IF ~HasRow(suppliers, data.supplier_id)
       THEN Respond(r, [op |-> "createPurchase", result |-> "supplier_not_found"])
       ELSE IF ~Row(suppliers, data.supplier_id).is_active
       THEN Respond(r, [op |-> "createPurchase", result |-> "supplier_inactive"])
       ELSE Goto(r, "pu_products", [op |-> "createPurchase", data |-> data, items |-> items])
    /\ UNCHANGED <<tables, next_id>>

\* the products query
CreatePurchaseCheckProducts(r) ==
    /\ pc[r] = "pu_products"
    /\ IF Cardinality(ProductsIn(req[r].items)) # Len(req[r].items)
       THEN Respond(r, [op |-> "createPurchase", result |-> "products_not_found"])
       ELSE Goto(r, "pu_purchase", req[r])
    /\ UNCHANGED <<tables, next_id>>

\* The payload as it would be if the status of the body were not looked at.
\* PurchaseStatusAsSupplied does not survive it.
PurchasePayloadAlwaysPending(id, data) ==
    [id |-> id, supplier_id |-> data.supplier_id, payment_status |-> "pending"]

\* purchasePayload
PurchasePayload(id, data) ==
    [id |-> id, supplier_id |-> data.supplier_id,
     payment_status |-> IF data.payment_status = "undefined" THEN "pending"
                        ELSE data.payment_status]

\* insert into purchases (supplier_id REFERENCES suppliers)
CreatePurchaseInsertPurchase(r, fail) ==
    /\ pc[r] = "pu_purchase"
    /\ LET new == PurchasePayload(next_id.purchase, req[r].data)
       IN  IF fail \/ ~HasRow(suppliers, new.supplier_id)
           THEN /\ Respond(r, [op |-> "createPurchase", result |-> "purchase_failed"])
                /\ UNCHANGED <<purchases, next_id>>
           ELSE /\ purchases' = purchases \cup {new}
                /\ next_id' = [next_id EXCEPT !.purchase = @ + 1]
                /\ Goto(r, "pu_items", [op |-> "createPurchase", purchase_id |-> new.id,
                                        items |-> req[r].items])
    /\ UNCHANGED <<products, suppliers, inventory, stock_movements, customers, sales,
                   sale_items, purchase_items, customer_payments>>

\* const purchaseItems = items.map(...), with the keys the insert gives the rows
PurchaseItemRows(purchase_id, items) ==
    [k \in DOMAIN items |->
        [id |-> ItemId(purchase_id, k), purchase_id |-> purchase_id,
         product_id |-> items[k].product_id, quantity |-> items[k].quantity,
         line_total |-> items[k].line_total]]

\* insert into purchase_items; every row fires create_stock_movement_on_purchase_item,
\* whose insert fires update_inventory_on_stock_movement
CreatePurchaseInsertItems(r, fail) ==
    /\ pc[r] = "pu_items"
    /\ LET rows == PurchaseItemRows(req[r].purchase_id, req[r].items)
           movs == [k \in DOMAIN rows |-> CreateStockMovementFromPurchase(rows[k])]
       IN  IF \/ fail
              \/ ~HasRow(purchases, req[r].purchase_id)
              \/ \E k \in DOMAIN rows : ~HasRow(products, rows[k].product_id)
              \/ \E k \in DOMAIN movs : ~CheckSingleReference(movs[k])
           THEN /\ Goto(r, "pu_rollback", [op |-> "createPurchase",
                                           purchase_id |-> req[r].purchase_id])
                /\ UNCHANGED <<purchase_items, stock_movements, inventory>>
           ELSE /\ purchase_items' = purchase_items \cup Range(rows)
                /\ stock_movements' = stock_movements \cup Range(movs)
                /\ inventory' = UpdateInventoryForEachRow(inventory, movs)
                /\ Respond(r, [op |-> "createPurchase", result |-> "created",
                               purchase_id |-> req[r].purchase_id])
    /\ UNCHANGED <<products, suppliers, customers, sales, sale_items, purchases,
                   customer_payments, next_id>>

\* DELETE FROM purchases WHERE id = ...: deletes the purchase_items (ON DELETE
\* CASCADE), which sets purchase_item_id of their stock_movements to NULL; a
\* movement of type purchase with a NULL purchase_item_id violates
\* check_single_reference, and the statement fails as a whole.
PurchaseDeleteRefused(id) ==
    \E i \in purchase_items : i.purchase_id = id /\
        \E m \in stock_movements : m.purchase_item_id = i.id /\
            ~CheckSingleReference([m EXCEPT !.purchase_item_id = NULL])

\* The delete when it is not refused: the purchase and its items (ON DELETE
\* CASCADE) go, and the movements of the items lose their purchase_item_id
\* (ON DELETE SET NULL).
DeletePurchaseRow(id) ==
    /\ purchases' = {p \in purchases : p.id # id}
    /\ purchase_items' = {i \in purchase_items : i.purchase_id # id}
    /\ stock_movements' =
           {IF \E i \in purchase_items : i.purchase_id = id /\ m.purchase_item_id = i.id
            THEN [m EXCEPT !.purchase_item_id = NULL] ELSE m : m \in stock_movements}

\* "Rollback: delete the purchase"; the outcome of the delete is not looked at
CreatePurchaseRollback(r, fail) ==
    /\ pc[r] = "pu_rollback"
    /\ IF fail \/ PurchaseDeleteRefused(req[r].purchase_id)
       THEN UNCHANGED <<purchases, purchase_items, stock_movements>>
       ELSE DeletePurchaseRow(req[r].purchase_id)
    /\ Respond(r, [op |-> "createPurchase", result |-> "items_failed",
                   purchase_id |-> req[r].purchase_id])
    /\ UNCHANGED <<products, suppliers, inventory, customers, sales,
                   sale_items, customer_payments, next_id>>

(***************************************************************************)
(* deletePurchase, purchase.controller.ts                                  *)
(***************************************************************************)
\* the existence query
DeletePurchaseBegin(r, id) ==
    /\ Free(r)
    /\ IF ~HasRow(purchases, id)
       THEN Respond(r, [op |-> "deletePurchase", result |-> "not_found", purchase_id |-> id])
       ELSE Goto(r, "dp_delete", [op |-> "deletePurchase", purchase_id |-> id])
    /\ UNCHANGED <<tables, next_id>>

\* the delete
DeletePurchaseDelete(r, fail) ==
    /\ pc[r] = "dp_delete"
    /\ IF fail \/ PurchaseDeleteRefused(req[r].purchase_id)
       THEN /\ Respond(r, [op |-> "deletePurchase", result |-> "delete_failed",
                           purchase_id |-> req[r].purchase_id])
            /\ UNCHANGED <<purchases, purchase_items, stock_movements>>
       ELSE /\ DeletePurchaseRow(req[r].purchase_id)
            /\ Respond(r, [op |-> "deletePurchase", result |-> "deleted",
                           purchase_id |-> req[r].purchase_id])
    /\ UNCHANGED <<products, suppliers, inventory, customers, sales,
                   sale_items, customer_payments, next_id>>

(***************************************************************************)
(* createCustomer and updateCustomer, customer.controller.ts               *)
(***************************************************************************)
\* insert into customers; credit_limit ?? 0, current_balance ?? 0
CreateCustomer(r, data, fail) ==
    /\ Free(r)
    /\ IF fail
       THEN /\ Respond(r, [op |-> "createCustomer", result |-> "insert_failed"])
            /\ UNCHANGED <<customers, next_id>>
       ELSE /\ customers' = customers \cup
                   {[id |-> next_id.customer,
                     credit_limit |-> IF data.credit_limit = Undefined THEN 0
                                      ELSE data.credit_limit,
                     current_balance |-> IF data.current_balance = Undefined THEN 0
                                         ELSE data.current_balance]}
            /\ next_id' = [next_id EXCEPT !.customer = @ + 1]
            /\ Respond(r, [op |-> "createCustomer", result |-> "created",
                           customer_id |-> next_id.customer])
    /\ UNCHANGED <<products, suppliers, inventory, stock_movements, sales, sale_items,
                   purchases, purchase_items, customer_payments>>

\* the existence query
UpdateCustomerBegin(r, id, updateData) ==
    /\ Free(r)
    /\ IF ~HasRow(customers, id)
       THEN Respond(r, [op |-> "updateCustomer", result |-> "not_found", customer_id |-> id])
       ELSE Goto(r, "uc_update", [op |-> "updateCustomer", customer_id |-> id,
                                  updateData |-> updateData])
    /\ UNCHANGED <<tables, next_id>>

\* .update({...updateData}): the columns the body names are overwritten
ApplyCustomerUpdate(row, updateData) ==
    [row EXCEPT !.credit_limit = IF updateData.credit_limit = Undefined THEN @
                                 ELSE updateData.credit_limit,
                !.current_balance = IF updateData.current_balance = Undefined THEN @
                                    ELSE updateData.current_balance]

\* the update
UpdateCustomerUpdate(r, fail) ==
    /\ pc[r] = "uc_update"
    /\ LET id == req[r].customer_id
       IN  IF fail \/ ~HasRow(customers, id)
           THEN /\ Respond(r, [op |-> "updateCustomer", result |-> "update_failed",
                               customer_id |-> id])
                /\ UNCHANGED customers
           ELSE /\ customers' = {IF x.id = id THEN ApplyCustomerUpdate(x, req[r].updateData)
                                 ELSE x : x \in customers}
                /\ Respond(r, [op |-> "updateCustomer", result |-> "updated",
                               customer_id |-> id])
    /\ UNCHANGED <<products, suppliers, inventory, stock_movements, sales, sale_items,
                   purchases, purchase_items, customer_payments, next_id>>

(***************************************************************************)
(* recordPayment and deletePayment, payment.controller.ts                  *)
(***************************************************************************)
\* The check as it would be against the sale's total instead of what remains
\* of it.  OverpaymentRejected does not survive it.
ExceedsTotal(amount, sale) == amount > sale.total_amount

\* paymentData.amount > remainingBalance
ExceedsRemaining(amount, sale) == amount > sale.total_amount - sale.amount_paid

\* The checks as they would be without the one on the customer of the sale.
\* WalkInSaleNotPayable does not survive it.
RecordPaymentBeginAnyCustomer(r, paymentData) ==
    /\ Free(r)
    /\ IF ~HasRow(sales, paymentData.sale_id)
       THEN Respond(r, [op |-> "recordPayment", result |-> "sale_not_found"])
       ELSE LET sale == Row(sales, paymentData.sale_id)
            IN  IF paymentData.amount <= 0
                THEN Respond(r, [op |-> "recordPayment", result |-> "not_positive",
                                 sale_id |-> sale.id])
                ELSE IF ExceedsRemaining(paymentData.amount, sale)
                THEN Respond(r, [op |-> "recordPayment", result |-> "exceeds_balance",
                                 sale_id |-> sale.id, amount |-> paymentData.amount])
                ELSE Goto(r, "rp_insert", [op |-> "recordPayment", sale_id |-> sale.id,
                                           customer_id |-> sale.customer_id,
                                           amount |-> paymentData.amount])
    /\ UNCHANGED <<tables, next_id>>

\* the sale query and the checks on the amount
RecordPaymentBegin(r, paymentData) ==
    /\ Free(r)
    /\ IF ~HasRow(sales, paymentData.sale_id)
       THEN Respond(r, [op |-> "recordPayment", result |-> "sale_not_found"])
       ELSE LET sale == Row(sales, paymentData.sale_id)
            IN  IF sale.customer_id = NULL
                THEN Respond(r, [op |-> "recordPayment", result |-> "no_customer",
                                 sale_id |-> sale.id])
                ELSE IF paymentData.amount <= 0
                THEN Respond(r, [op |-> "recordPayment", result |-> "not_positive",
                                 sale_id |-> sale.id])
                ELSE IF ExceedsRemaining(paymentData.amount, sale)
                THEN Respond(r, [op |-> "recordPayment", result |-> "exceeds_balance",
                                 sale_id |-> sale.id, amount |-> paymentData.amount])
                ELSE Goto(r, "rp_insert", [op |-> "recordPayment", sale_id |-> sale.id,
                                           customer_id |-> sale.customer_id,
                                           amount |-> paymentData.amount])
    /\ UNCHANGED <<tables, next_id>>

\* insert into customer_payments (sale_id REFERENCES sales, customer_id
\* REFERENCES customers, CHECK (amount > 0)), which fires the two AFTER INSERT
\* triggers
RecordPaymentInsert(r, fail) ==
    /\ pc[r] = "rp_insert"
    /\ LET new == [id |-> next_id.payment, sale_id |-> req[r].sale_id,
                   customer_id |-> req[r].customer_id, amount |-> req[r].amount]
       IN  IF \/ fail
              \/ ~HasRow(sales, new.sale_id)
              \/ ~HasRow(customers, new.customer_id)
              \/ ~(new.amount > 0)
           THEN /\ Respond(r, [op |-> "recordPayment", result |-> "insert_failed",
                               sale_id |-> new.sale_id])
                /\ UNCHANGED <<customer_payments, customers, sales, next_id>>
           ELSE /\ customer_payments' = customer_payments \cup {new}
                /\ LET fired == FirePaymentTriggers(customers, sales, customer_payments',
                                                    "INSERT", new)
                   IN  /\ customers' = fired[1]
                       /\ sales' = fired[2]
                /\ next_id' = [next_id EXCEPT !.payment = @ + 1]
                /\ Respond(r, [op |-> "recordPayment", result |-> "recorded",
                               sale_id |-> new.sale_id, payment_id |-> new.id,
                               amount |-> new.amount])
    /\ UNCHANGED <<products, suppliers, inventory, stock_movements, sale_items,
                   purchases, purchase_items>>

\* the payment query
DeletePaymentBegin(r, paymentId) ==
    /\ Free(r)
    /\ IF ~HasRow(customer_payments, paymentId)
       THEN Respond(r, [op |-> "deletePayment", result |-> "not_found"])
       ELSE Goto(r, "dy_delete", [op |-> "deletePayment", payment_id |-> paymentId,
                                  sale_id |-> Row(customer_payments, paymentId).sale_id])
    /\ UNCHANGED <<tables, next_id>>

\* delete from customer_payments, which fires the two AFTER DELETE triggers
\* for the row if it is still there
DeletePaymentDelete(r, fail) ==
    /\ pc[r] = "dy_delete"
    /\ LET id == req[r].payment_id
       IN  IF fail
           THEN /\ Respond(r, [op |-> "deletePayment", result |-> "delete_failed",
                               payment_id |-> id, sale_id |-> req[r].sale_id])
                /\ UNCHANGED <<customer_payments, customers, sales>>
           ELSE /\ customer_payments' = {p \in customer_payments : p.id # id}
                /\ IF HasRow(customer_payments, id)
                   THEN LET fired == FirePaymentTriggers(customers, sales, customer_payments',
                                                         "DELETE", Row(customer_payments, id))
                        IN  /\ customers' = fired[1]
                            /\ sales' = fired[2]
                   ELSE UNCHANGED <<customers, sales>>
                /\ Respond(r, [op |-> "deletePayment", result |-> "deleted",
                               payment_id |-> id, sale_id |-> req[r].sale_id])
    /\ UNCHANGED <<products, suppliers, inventory, stock_movements, sale_items,
                   purchases, purchase_items, next_id>>

(***************************************************************************)
(* The ledger: products, adjustments, sales and purchases on a database    *)
(* that starts with no product and one active supplier.                    *)
(***************************************************************************)
StoreOutcomes == BOOLEAN    \* TRUE: the call returns an error and writes nothing

ItemLists(pids, quantities, totals) ==
    UNION {[1..n -> [product_id : pids, quantity : quantities, line_total : totals]] :
              n \in 1..MaxItems}

LedgerProductInputs ==
    [sku : {next_id.product}, is_active : {TRUE}, purchase_price : {1}, retail_price : {1},
     wholesale_price : {NoPrice}, has_quantity : {FALSE}]
LedgerAdjustmentInputs ==
    [product_id : ProductIds, movement_type : {"adjustment"},
     adjustment_reason : {"damaged", "correction"}, quantity_change : {-1, 2},
     sale_item_id : {NULL}, purchase_item_id : {NULL}]
LedgerSaleInputs ==
    [customer_id : {NULL}, payment_method : {"undefined"}, discount_amount : {Undefined}]
LedgerSaleItems == ItemLists(ProductIds, {1}, {0})
LedgerPurchaseInputs == [supplier_id : {1}, payment_status : {"undefined"}]
LedgerPurchaseItems == ItemLists(ProductIds, {2}, {0})

FirstIds ==
    [product |-> 1, customer |-> 1, sale |-> 1, purchase |-> 1, adjustment |-> 1,
     payment |-> 1]

Init ==
    /\ products = {}
    /\ suppliers = {[id |-> 1, is_active |-> TRUE]}
    /\ inventory = {}
    /\ stock_movements = {}
    /\ customers = {}
    /\ sales = {}
    /\ sale_items = {}
    /\ purchases = {}
    /\ purchase_items = {}
    /\ customer_payments = {}
    /\ next_id = FirstIds
    /\ pc = [r \in Requests |-> "idle"]
    /\ req = [r \in Requests |-> NoRequest]
    /\ response = NoResponse

\* room for one more row under the bound, counting the requests about to insert
RoomFor(table, labels, max) == next_id[table] + InFlight(labels) <= max

Next ==
    \E r \in Requests :
        \/ /\ RoomFor("product", {"cp_product"}, MaxProducts)
           /\ \E data \in LedgerProductInputs : CreateProductBegin(r, data)
        \/ \E fail \in StoreOutcomes : CreateProductInsert(r, fail)
        \/ \E fail \in StoreOutcomes : CreateProductInventory(r, fail)
        \/ \E fail \in StoreOutcomes : CreateProductRollback(r, fail)
        \/ /\ RoomFor("adjustment", {"sa_inventory", "sa_insert"}, MaxAdjustments)
           /\ \E data \in LedgerAdjustmentInputs : CreateStockAdjustmentBegin(r, data)
        \/ CreateStockAdjustmentCheck(r)
        \/ \E fail \in StoreOutcomes : CreateStockAdjustmentInsert(r, fail)
        \/ /\ RoomFor("sale", {"cs_inventory", "cs_sale"}, MaxSales)
           /\ \E data \in LedgerSaleInputs, items \in LedgerSaleItems :
                  CreateSaleBegin(r, data, items)
        \/ CreateSaleCheckStock(r)
        \/ \E fail \in StoreOutcomes : CreateSaleInsertSale(r, fail)
        \/ \E fail \in StoreOutcomes : CreateSaleInsertItems(r, fail)
        \/ \E fail \in StoreOutcomes : CreateSaleRollback(r, fail)
        \/ \E id \in 1..MaxSales : DeleteSaleBegin(r, id)
        \/ \E fail \in StoreOutcomes : DeleteSaleDelete(r, fail)
        \/ /\ RoomFor("purchase", {"pu_products", "pu_purchase"}, MaxPurchases)
           /\ \E data \in LedgerPurchaseInputs, items \in LedgerPurchaseItems :
                  CreatePurchaseBegin(r, data, items)
        \/ CreatePurchaseCheckProducts(r)
        \/ \E fail \in StoreOutcomes : CreatePurchaseInsertPurchase(r, fail)
        \/ \E fail \in StoreOutcomes : CreatePurchaseInsertItems(r, fail)
        \/ \E fail \in StoreOutcomes : CreatePurchaseRollback(r, fail)
        \/ \E id \in 1..MaxPurchases : DeletePurchaseBegin(r, id)
        \/ \E fail \in StoreOutcomes : DeletePurchaseDelete(r, fail)

Spec == Init /\ [][Next]_vars

(***************************************************************************)
(* Credit settlement: customers, credit sales and payments on a database   *)
(* that starts with one active product in stock and no customer.           *)
(***************************************************************************)
StockedProduct ==
    [id |-> 1, sku |-> 1, is_active |-> TRUE, purchase_price |-> 1, retail_price |-> 1,
     wholesale_price |-> NoPrice]
\* the adjustment that put `quantity` units of product 1 in stock
OpeningStock(quantity) ==
    [id |-> AdjustmentMovementId(1), product_id |-> 1, movement_type |-> "adjustment",
     sale_item_id |-> NULL, purchase_item_id |-> NULL, adjustment_reason |-> "correction",
     quantity_change |-> quantity]

InitStocked(quantity, slots) ==
    /\ products = {StockedProduct}
    /\ suppliers = {[id |-> 1, is_active |-> TRUE]}
    /\ inventory = {[product_id |-> 1, quantity |-> quantity]}
    /\ stock_movements = {OpeningStock(quantity)}
    /\ customers = {}
    /\ sales = {}
    /\ sale_items = {}
    /\ purchases = {}
    /\ purchase_items = {}
    /\ customer_payments = {}
    /\ next_id = [FirstIds EXCEPT !.product = 2, !.adjustment = 2]
    /\ pc = [r \in slots |-> "idle"]
    /\ req = [r \in slots |-> NoRequest]
    /\ response = NoResponse

CreditCustomerInputs == [credit_limit : {Undefined}, current_balance : {Undefined, 250}]
CreditCustomerUpdates == [credit_limit : {Undefined}, current_balance : {250}]
CreditSaleInputs ==
    [customer_id : {NULL} \cup 1..MaxCustomers,
     payment_method : {"undefined", "cash", "mpesa"},
     discount_amount : {Undefined}]
CreditSaleItems == {<<[product_id |-> 1, quantity |-> 1, line_total |-> 1000]>>}
CreditPaymentInputs == [sale_id : 1..MaxCreditSales, amount : {400, 600, 700}]

InitCredit == InitStocked(MaxCreditSales + 1, Requests)

NextCredit ==
    \E r \in Requests :
        \/ /\ RoomFor("customer", {}, MaxCustomers)
           /\ \E data \in CreditCustomerInputs, fail \in StoreOutcomes :
                  CreateCustomer(r, data, fail)
        \/ \E id \in 1..MaxCustomers, updateData \in CreditCustomerUpdates :
               UpdateCustomerBegin(r, id, updateData)
        \/ \E fail \in StoreOutcomes : UpdateCustomerUpdate(r, fail)
        \/ /\ RoomFor("sale", {"cs_inventory", "cs_sale"}, MaxCreditSales)
           /\ \E data \in CreditSaleInputs, items \in CreditSaleItems :
                  CreateSaleBegin(r, data, items)
        \/ CreateSaleCheckStock(r)
        \/ \E fail \in StoreOutcomes : CreateSaleInsertSale(r, fail)
        \/ \E fail \in StoreOutcomes : CreateSaleInsertItems(r, fail)
        \/ \E fail \in StoreOutcomes : CreateSaleRollback(r, fail)
        \/ \E id \in 1..MaxCreditSales : DeleteSaleBegin(r, id)
        \/ \E fail \in StoreOutcomes : DeleteSaleDelete(r, fail)
        \/ /\ RoomFor("payment", {"rp_insert"}, MaxPayments)
           /\ \E paymentData \in CreditPaymentInputs : RecordPaymentBegin(r, paymentData)
        \/ \E fail \in StoreOutcomes : RecordPaymentInsert(r, fail)
        \/ \E id \in 1..MaxPayments : DeletePaymentBegin(r, id)
        \/ \E fail \in StoreOutcomes : DeletePaymentDelete(r, fail)

SpecCredit == InitCredit /\ [][NextCredit]_vars

(***************************************************************************)
(* Concurrent sales of one product: every buyer sends one createSale for 6 *)
(* units of product 1, of which 10 are in stock.  No call on the store     *)
(* fails.                                                                  *)
(***************************************************************************)
NumBuyers == 3
Buyers == 1..NumBuyers

OverdrawSale ==
    [customer_id |-> NULL, payment_method |-> "undefined", discount_amount |-> Undefined]
OverdrawItems == <<[product_id |-> 1, quantity |-> 6, line_total |-> 0]>>

InitOverdraw == InitStocked(10, Buyers)

NextOverdraw ==
    \E r \in Buyers :
        \/ /\ pc[r] = "idle"
           /\ CreateSaleBegin(r, OverdrawSale, OverdrawItems)
        \/ CreateSaleCheckStock(r)
        \/ CreateSaleInsertSale(r, FALSE)
        \/ CreateSaleInsertItems(r, FALSE)

SpecOverdraw == InitOverdraw /\ [][NextOverdraw]_vars

(***************************************************************************)
(* Sales made and deleted again on a database that starts with 3 units of  *)
(* product 1 in stock.  No call on the store fails, so a delete that fails *)
(* is one the database refuses.                                            *)
(***************************************************************************)
RoundTripSaleItems == ItemLists({1}, {1, 2, 3}, {0})

InitRoundTrip == InitStocked(3, Requests)

NextRoundTrip ==
    \E r \in Requests :
        \/ /\ RoomFor("sale", {"cs_inventory", "cs_sale"}, MaxSales)
           /\ \E data \in LedgerSaleInputs, items \in RoundTripSaleItems :
                  CreateSaleBegin(r, data, items)
        \/ CreateSaleCheckStock(r)
        \/ CreateSaleInsertSale(r, FALSE)
        \/ CreateSaleInsertItems(r, FALSE)
        \/ CreateSaleRollback(r, FALSE)
        \/ \E id \in 1..MaxSales : DeleteSaleBegin(r, id)
        \/ DeleteSaleDelete(r, FALSE)

SpecRoundTrip == InitRoundTrip /\ [][NextRoundTrip]_vars

(***************************************************************************)
(* Properties.                                                             *)
(***************************************************************************)
Quiescent == \A r \in DOMAIN pc : Free(r)
PaymentsOf(pays, sale_id) == {p \in pays : p.sale_id = sale_id}
ItemsOf(items, sale_id) == {i \in items : i.sale_id = sale_id}

RECURSIVE SumQuantity(_)
SumQuantity(rows) ==
    IF rows = {} THEN 0
    ELSE LET i == CHOOSE x \in rows : TRUE
         IN  i.quantity + SumQuantity(rows \ {i})

\* paid if amount_paid >= total_amount, partial if 0 < amount_paid < total_amount,
\* pending otherwise
StatusByRule(sale) ==
    IF sale.amount_paid >= sale.total_amount THEN sale.payment_status = "paid"
    ELSE IF 0 < sale.amount_paid THEN sale.payment_status = "partial"
    ELSE sale.payment_status = "pending"

\* C1: after every statement of every operation, each product's inventory
\* quantity (0 when it has no inventory row) is the sum of quantity_change over
\* the product's stock_movements rows.
InventoryMatchesMovements ==
    \A p \in products :
        StockOf(inventory, p.id) =
            SumQuantityChange({m \in stock_movements : m.product_id = p.id})

\* a product that was bought and sold and has stock left
StockMovedBySaleAndPurchase ==
    \E p \in products :
        /\ \E m \in stock_movements : m.product_id = p.id /\ m.movement_type = "sale"
        /\ \E m \in stock_movements : m.product_id = p.id /\ m.movement_type = "purchase"
        /\ StockOf(inventory, p.id) > 0

\* C2: once all the concurrent requests for 6 of the 10 units have completed,
\* exactly one of them has made its sale and 4 units are in stock.
ExactlyOneSaleSucceeds ==
    (\A r \in Buyers : pc[r] = "done") =>
        /\ Cardinality({s \in sales : ItemsOf(sale_items, s.id) # {}}) = 1
        /\ StockOf(inventory, 1) = 4

\* C3: whenever no operation is in progress, every customer's current_balance
\* is the sum of total_amount - amount_paid over the customer's pending and
\* partial sales.
BalanceMatchesOutstanding ==
    Quiescent =>
        \A c \in customers : c.current_balance = OutstandingOf(sales, c.id)

\* C4: whenever no operation is in progress, the amount_paid of every sale that
\* has customer payments is the sum of the amounts of those payments.
AmountPaidMatchesPayments ==
    Quiescent =>
        \A s \in sales :
            PaymentsOf(customer_payments, s.id) # {} =>
                s.amount_paid = SumAmount(PaymentsOf(customer_payments, s.id))

\* C5: when createSale answers that the insert of the items failed, the header
\* it had inserted is gone, and so are the items and stock movements of it.
FailedSaleLeavesNoRows ==
    (response.op = "createSale" /\ response.result = "items_failed") =>
        /\ ~HasRow(sales, response.sale_id)
        /\ ItemsOf(sale_items, response.sale_id) = {}
        /\ \A m \in stock_movements :
               \A k \in 1..MaxItems : m.sale_item_id # ItemId(response.sale_id, k)

\* C6: the delete of a sale that has its items succeeds, removes the items and
\* their stock movements, and gives every product back the quantity sold.
DeleteSaleRestoresStock ==
    [][\A r \in Requests :
          (pc[r] = "ds_delete" /\ pc'[r] = "done"
              /\ ItemsOf(sale_items, req[r].sale_id) # {}) =>
              /\ response'.result = "deleted"
              /\ ItemsOf(sale_items', req[r].sale_id) = {}
              /\ \A m \in stock_movements' :
                     \A i \in ItemsOf(sale_items, req[r].sale_id) : m.sale_item_id # i.id
              /\ \A p \in products :
                     StockOf(inventory', p.id) =
                         StockOf(inventory, p.id) +
                             SumQuantity({i \in ItemsOf(sale_items, req[r].sale_id) :
                                             i.product_id = p.id})]_vars

\* C7: when the payment of 600 that follows a payment of 400 on a completed
\* credit sale of 1000 has been recorded, the sale is paid with amount_paid 1000 and the
\* customer's current_balance is the sum over the customer's other pending and
\* partial sales.
FullSettlementClearsBalance ==
    (response.op = "recordPayment" /\ response.result = "recorded" /\ response.amount = 600) =>
        \A s \in sales :
            (/\ s.id = response.sale_id
             /\ s.total_amount = 1000
             /\ ItemsOf(sale_items, s.id) # {}
             /\ {p.amount : p \in PaymentsOf(customer_payments, s.id)} = {400, 600}
             /\ Cardinality(PaymentsOf(customer_payments, s.id)) = 2) =>
                /\ s.payment_status = "paid"
                /\ s.amount_paid = 1000
                /\ \A c \in customers :
                       c.id = s.customer_id =>
                           c.current_balance =
                               OutstandingOf({o \in sales : o.id # s.id}, c.id)

\* C8: when a payment has been recorded, the sale's amount_paid is the sum of
\* its payments, its payment_status follows the paid/partial/pending rule, and
\* while the sale is not paid the customer's current_balance is the sum over
\* the customer's pending and partial sales, this one with what remains of it.
RecordedPaymentDerivesStatus ==
    (response.op = "recordPayment" /\ response.result = "recorded") =>
        LET s == Row(sales, response.sale_id)
        IN  /\ s.amount_paid = SumAmount(PaymentsOf(customer_payments, s.id))
            /\ StatusByRule(s)
            /\ s.payment_status # "paid" =>
                   \A c \in customers :
                       c.id = s.customer_id =>
                           c.current_balance =
                               (s.total_amount - s.amount_paid) +
                                   OutstandingOf({o \in sales : o.id # s.id}, c.id)

\* 400 recorded on a sale of 1000: partial, 600 remain and are the balance
PartialPaymentRecorded ==
    /\ response.op = "recordPayment" /\ response.result = "recorded"
    /\ response.amount = 400
    /\ \E s \in sales :
           /\ s.id = response.sale_id
           /\ s.total_amount = 1000 /\ s.amount_paid = 400 /\ s.payment_status = "partial"
           /\ \E c \in customers : c.id = s.customer_id /\ c.current_balance = 600

\* C9: the delete of a payment row leaves the sale of the row with amount_paid
\* the sum of its remaining payments and the status the rule gives, and the
\* customer of the row with the sum over the customer's pending and partial
\* sales as current_balance.
DeletePaymentRederives ==
    [][\A r \in Requests :
          (pc[r] = "dy_delete" /\ pc'[r] = "done"
              /\ HasRow(customer_payments, req[r].payment_id)
              /\ ~HasRow(customer_payments', req[r].payment_id)) =>
              LET old == Row(customer_payments, req[r].payment_id)
              IN  /\ \A s \in sales' :
                         s.id = old.sale_id =>
                             /\ s.amount_paid = SumAmount(PaymentsOf(customer_payments', s.id))
                             /\ StatusByRule(s)
                  /\ \A c \in customers' :
                         c.id = old.customer_id =>
                             c.current_balance = OutstandingOf(sales', c.id)]_vars

\* C10: a recordPayment whose amount is greater than total_amount - amount_paid
\* of the sale is answered with the rejection at once: no table changes and
\* the request makes no further call.
OverpaymentRejected ==
    [][\A r \in Requests : \A paymentData \in CreditPaymentInputs :
          (/\ HasRow(sales, paymentData.sale_id)
           /\ Row(sales, paymentData.sale_id).customer_id # NULL
           /\ paymentData.amount > Row(sales, paymentData.sale_id).total_amount -
                                       Row(sales, paymentData.sale_id).amount_paid
           /\ RecordPaymentBegin(r, paymentData)) =>
              /\ response'.result = "exceeds_balance"
              /\ pc'[r] = "done"
              /\ tables' = tables]_vars

\* 700 offered on a sale of 1000 on which 400 are paid, and rejected
OverpaymentOf700Rejected ==
    /\ response.op = "recordPayment" /\ response.result = "exceeds_balance"
    /\ response.amount = 700
    /\ \E s \in sales :
           /\ s.id = response.sale_id
           /\ s.total_amount = 1000 /\ s.amount_paid = 400 /\ s.payment_status = "partial"
           /\ PaymentsOf(customer_payments, s.id) # {}

\* C11: the payments recorded for a sale never add up to more than the sale's
\* total_amount, however the recordPayment requests for it interleave.
PaymentsWithinTotal ==
    \A s \in sales : SumAmount(PaymentsOf(customer_payments, s.id)) <= s.total_amount

(***************************************************************************)
(* Adjustments of product 1, of which 5 units are in stock, by -8 or +3    *)
(* for every reason.                                                       *)
(***************************************************************************)
BoundaryAdjustmentInputs ==
    [product_id : {1}, movement_type : {"adjustment"},
     adjustment_reason : AdjustmentReasons, quantity_change : {-8, 3},
     sale_item_id : {NULL}, purchase_item_id : {NULL}]

InitAdjust == InitStocked(5, Requests)

NextAdjust ==
    \E r \in Requests :
        \/ /\ RoomFor("adjustment", {"sa_inventory", "sa_insert"}, MaxAdjustments + 1)
           /\ \E data \in BoundaryAdjustmentInputs : CreateStockAdjustmentBegin(r, data)
        \/ CreateStockAdjustmentCheck(r)
        \/ \E fail \in StoreOutcomes : CreateStockAdjustmentInsert(r, fail)

SpecAdjust == InitAdjust /\ [][NextAdjust]_vars

\* C12: an adjustment that would take the stock read by the handler below zero
\* is rejected without a write when its reason is not correction; one whose
\* reason is correction passes the check, and when its insert succeeds the
\* movement is recorded and the stock changes by quantity_change.
AdjustmentBoundary ==
    [][\A r \in Requests :
          /\ (pc[r] = "sa_inventory" /\ pc'[r] # pc[r]) =>
                 LET data == req[r].data
                     newStock == StockOf(inventory, data.product_id) + data.quantity_change
                 IN  /\ (newStock < 0 /\ data.adjustment_reason
                             \in {"expired", "damaged", "lost", "theft", "breakage"}) =>
                            /\ response'.result = "negative_stock"
                            /\ pc'[r] = "done"
                            /\ tables' = tables
                     /\ data.adjustment_reason = "correction" => pc'[r] = "sa_insert"
          /\ (pc[r] = "sa_insert" /\ pc'[r] = "done" /\ response'.result = "created") =>
                 LET data == req[r].data
                 IN  /\ StockOf(inventory', data.product_id) =
                            StockOf(inventory, data.product_id) + data.quantity_change
                     /\ \E m \in stock_movements' \ stock_movements :
                            /\ m.id = response'.movement_id
                            /\ m.product_id = data.product_id
                            /\ m.quantity_change = data.quantity_change
                            /\ m.adjustment_reason = data.adjustment_reason]_vars

\* the correction by -8 accepted at stock 5, which leaves -3
CorrectionBelowZeroRecorded ==
    /\ response.op = "createStockAdjustment" /\ response.result = "created"
    /\ StockOf(inventory, 1) = -3
    /\ \E m \in stock_movements :
           /\ m.id = response.movement_id
           /\ m.adjustment_reason = "correction" /\ m.quantity_change = -8

(***************************************************************************)
(* Credit sales to customer 1, who owes nothing at the start, of product 1 *)
(* with 3 units in stock; the calls on the store may fail.                 *)
(***************************************************************************)
RollbackSaleInputs ==
    [customer_id : {1}, payment_method : {"mpesa", "card"}, discount_amount : {Undefined}]
RollbackSaleItems == ItemLists({1}, {1, 2, 3}, {1000})

InitRollback ==
    /\ products = {StockedProduct}
    /\ suppliers = {[id |-> 1, is_active |-> TRUE]}
    /\ inventory = {[product_id |-> 1, quantity |-> 3]}
    /\ stock_movements = {OpeningStock(3)}
    /\ customers = {[id |-> 1, credit_limit |-> 0, current_balance |-> 0]}
    /\ sales = {}
    /\ sale_items = {}
    /\ purchases = {}
    /\ purchase_items = {}
    /\ customer_payments = {}
    /\ next_id = [FirstIds EXCEPT !.product = 2, !.adjustment = 2, !.customer = 2]
    /\ pc = [r \in Requests |-> "idle"]
    /\ req = [r \in Requests |-> NoRequest]
    /\ response = NoResponse

NextRollback ==
    \E r \in Requests :
        \/ /\ RoomFor("sale", {"cs_inventory", "cs_sale"}, MaxCreditSales)
           /\ \E data \in RollbackSaleInputs, items \in RollbackSaleItems :
                  CreateSaleBegin(r, data, items)
        \/ CreateSaleCheckStock(r)
        \/ \E fail \in StoreOutcomes : CreateSaleInsertSale(r, fail)
        \/ \E fail \in StoreOutcomes : CreateSaleInsertItems(r, fail)
        \/ \E fail \in StoreOutcomes : CreateSaleRollback(r, fail)

SpecRollback == InitRollback /\ [][NextRollback]_vars

\* C13: when the first credit sale ever attempted for the customer fails at the
\* insert of its items and its header has been deleted again, the customer's
\* current_balance is what it was before the attempt (0), and the rollback
\* leaves the inventory alone.
RolledBackSaleRestoresBalance ==
    [][\A r \in Requests :
          (/\ pc[r] = "cs_rollback" /\ pc'[r] = "done"
           /\ req[r].sale_id = 1 /\ next_id.sale = 2
           /\ ~HasRow(sales', 1)) =>
              /\ \A c \in customers' : c.current_balance = 0
              /\ inventory' = inventory]_vars

\* C14: the row createSale inserts into sales is paid with amount_paid =
\* total_amount when the method is cash, or absent and so cash, or when no
\* customer is attached; it is pending with amount_paid = 0 when a customer is
\* attached and the method is not cash.
NewSaleIsPaidOrPending ==
    [][\A r \in Requests :
          (pc[r] = "cs_sale" /\ pc'[r] = "cs_items") =>
              LET data == req[r].data
                  new  == Row(sales', req'[r].sale_id)
              IN  /\ ~HasRow(sales, new.id)
                  /\ new.customer_id = data.customer_id
                  /\ IF \/ data.payment_method \in {"cash", "undefined"}
                        \/ data.customer_id = NULL
                     THEN new.payment_status = "paid" /\ new.amount_paid = new.total_amount
                     ELSE new.payment_status = "pending" /\ new.amount_paid = 0]_vars

\* a walk-in sale by mpesa just inserted: paid in full
WalkInSaleByMpesaInserted ==
    \E r \in Requests :
        /\ pc[r] = "cs_items"
        /\ \E s \in sales :
               /\ s.id = req[r].sale_id
               /\ s.customer_id = NULL /\ s.payment_method = "mpesa"
               /\ s.payment_status = "paid" /\ s.amount_paid = 1000

(***************************************************************************)
(* Sales of two line items, of quantities 3 and 5, of products 1 and 2,    *)
(* which both have 8 units in stock.  No call on the store fails.          *)
(***************************************************************************)
SecondStockedProduct == [StockedProduct EXCEPT !.id = 2, !.sku = 2]
MultiItemSaleItems ==
    {<<[product_id |-> p, quantity |-> 3, line_total |-> 0],
       [product_id |-> q, quantity |-> 5, line_total |-> 0]>> : p \in {1, 2}, q \in {1, 2}}

InitMultiItem ==
    /\ products = {StockedProduct, SecondStockedProduct}
    /\ suppliers = {[id |-> 1, is_active |-> TRUE]}
    /\ inventory = {[product_id |-> 1, quantity |-> 8], [product_id |-> 2, quantity |-> 8]}
    /\ stock_movements =
           {OpeningStock(8),
            [OpeningStock(8) EXCEPT !.id = AdjustmentMovementId(2), !.product_id = 2]}
    /\ customers = {}
    /\ sales = {}
    /\ sale_items = {}
    /\ purchases = {}
    /\ purchase_items = {}
    /\ customer_payments = {}
    /\ next_id = [FirstIds EXCEPT !.product = 3, !.adjustment = 3]
    /\ pc = [r \in Requests |-> "idle"]
    /\ req = [r \in Requests |-> NoRequest]
    /\ response = NoResponse

NextMultiItem ==
    \E r \in Requests :
        \/ /\ RoomFor("sale", {"cs_inventory", "cs_sale"}, MaxSales + 1)
           /\ \E data \in LedgerSaleInputs, items \in MultiItemSaleItems :
                  CreateSaleBegin(r, data, items)
        \/ CreateSaleCheckStock(r)
        \/ CreateSaleInsertSale(r, FALSE)
        \/ CreateSaleInsertItems(r, FALSE)

SpecMultiItem == InitMultiItem /\ [][NextMultiItem]_vars

\* C15: a sale of two items of quantities 3 and 5 of active products that have
\* the stock passes the checks on the products and on the stock, whether the
\* items name two products or the same one, and its insert takes from every
\* product the quantities of the items that name it (3 and 5, or 8).
TwoItemSaleTakesBoth ==
    [][\A r \in Requests :
          /\ \A data \in LedgerSaleInputs, items \in MultiItemSaleItems :
                 (/\ \A k \in DOMAIN items :
                        /\ HasRow(products, items[k].product_id)
                        /\ Row(products, items[k].product_id).is_active
                  /\ CreateSaleBegin(r, data, items)) =>
                     pc'[r] = "cs_inventory"
          /\ (/\ pc[r] = "cs_inventory" /\ pc'[r] # pc[r]
              /\ \A p \in products :
                     SumQuantity({[id |-> k, quantity |-> req[r].items[k].quantity] :
                                     k \in {j \in DOMAIN req[r].items :
                                               req[r].items[j].product_id = p.id}})
                         <= StockOf(inventory, p.id)) =>
                 pc'[r] = "cs_sale"
          /\ (pc[r] = "cs_items" /\ pc'[r] = "done") =>
                 /\ response'.result = "created"
                 /\ \A p \in products :
                        StockOf(inventory', p.id) =
                            StockOf(inventory, p.id) -
                                SumQuantity({i \in ItemsOf(sale_items', req[r].sale_id) :
                                                i.product_id = p.id})]_vars

\* C16: the stock check of a sale one of whose items asks for more than the
\* inventory row of its product holds (nothing when the product has no row)
\* ends the request with "insufficient stock" and changes no table.
OversoldSaleRejected ==
    [][\A r \in Requests :
          (/\ pc[r] = "cs_inventory" /\ pc'[r] # pc[r]
           /\ \E k \in DOMAIN req[r].items :
                  req[r].items[k].quantity >
                      (IF HasInventory(req[r].items[k].product_id)
                       THEN InventoryRow(req[r].items[k].product_id).quantity
                       ELSE 0)) =>
              /\ response' = [op |-> "createSale", result |-> "insufficient_stock",
                              request |-> r]
              /\ pc'[r] = "done"
              /\ UNCHANGED tables]_vars

\* a sale was refused for a product that has no inventory row
SaleOfUnstockedProductRefused ==
    /\ response.op = "createSale" /\ response.result = "insufficient_stock"
    /\ products # {} /\ inventory = {}
    /\ sales = {} /\ sale_items = {} /\ stock_movements = {}

(***************************************************************************)
(* updateProductStatus, product.controller.ts                              *)
(***************************************************************************)
\* the checks on the body and the query for the product
UpdateProductStatusBegin(r, id, is_active) ==
    /\ Free(r)
    /\ IF ~HasRow(products, id)
       THEN Respond(r, [op |-> "updateProductStatus", result |-> "product_not_found"])
       ELSE Goto(r, "ps_update", [op |-> "updateProductStatus", id |-> id,
                                  is_active |-> is_active])
    /\ UNCHANGED <<tables, next_id>>

\* update products set is_active = ... where id = ...; .single() turns a
\* missing row into an error
UpdateProductStatusUpdate(r, fail) ==
    /\ pc[r] = "ps_update"
    /\ IF fail \/ ~HasRow(products, req[r].id)
       THEN /\ Respond(r, [op |-> "updateProductStatus", result |-> "update_failed"])
            /\ UNCHANGED products
       ELSE /\ products' = {IF p.id = req[r].id
                            THEN [p EXCEPT !.is_active = req[r].is_active] ELSE p :
                               p \in products}
            /\ Respond(r, [op |-> "updateProductStatus", result |-> "updated",
                           id |-> req[r].id])
    /\ UNCHANGED <<suppliers, inventory, stock_movements, customers, sales, sale_items,
                   purchases, purchase_items, customer_payments, next_id>>

(***************************************************************************)
(* Sales from a catalogue of an active product 1 and an inactive product 2,*)
(* both in stock, while products are activated and deactivated.  No        *)
(* product has the id 3.                                                   *)
(***************************************************************************)
CatalogueIds == {1, 2, 3}
CatalogueSaleItems == ItemLists(CatalogueIds, {1}, {0})

InitCatalogue ==
    /\ products = {StockedProduct, [SecondStockedProduct EXCEPT !.is_active = FALSE]}
    /\ suppliers = {[id |-> 1, is_active |-> TRUE]}
    /\ inventory = {[product_id |-> 1, quantity |-> 2], [product_id |-> 2, quantity |-> 2]}
    /\ stock_movements =
           {OpeningStock(2),
            [OpeningStock(2) EXCEPT !.id = AdjustmentMovementId(2), !.product_id = 2]}
    /\ customers = {}
    /\ sales = {}
    /\ sale_items = {}
    /\ purchases = {}
    /\ purchase_items = {}
    /\ customer_payments = {}
    /\ next_id = [FirstIds EXCEPT !.product = 3, !.adjustment = 3]
    /\ pc = [r \in Requests |-> "idle"]
    /\ req = [r \in Requests |-> NoRequest]
    /\ response = NoResponse

NextCatalogue ==
    \E r \in Requests :
        \/ /\ RoomFor("sale", {"cs_inventory", "cs_sale"}, MaxSales)
           /\ \E data \in LedgerSaleInputs, items \in CatalogueSaleItems :
                  CreateSaleBegin(r, data, items)
        \/ CreateSaleCheckStock(r)
        \/ \E fail \in StoreOutcomes : CreateSaleInsertSale(r, fail)
        \/ \E fail \in StoreOutcomes : CreateSaleInsertItems(r, fail)
        \/ \E fail \in StoreOutcomes : CreateSaleRollback(r, fail)
        \/ \E id \in CatalogueIds, is_active \in BOOLEAN :
               UpdateProductStatusBegin(r, id, is_active)
        \/ \E fail \in StoreOutcomes : UpdateProductStatusUpdate(r, fail)

SpecCatalogue == InitCatalogue /\ [][NextCatalogue]_vars

\* C17: the first step of a sale one of whose items names a product that does
\* not exist or is inactive ends the request and changes no table; so a sale
\* that goes on to its writes had, when its products were read, only items of
\* active products.
InvalidProductRejected ==
    [][\A r \in Requests : \A data \in LedgerSaleInputs, items \in CatalogueSaleItems :
          CreateSaleBegin(r, data, items) =>
              IF \E k \in DOMAIN items :
                     \/ ~HasRow(products, items[k].product_id)
                     \/ ~Row(products, items[k].product_id).is_active
              THEN /\ pc'[r] = "done"
                   /\ response'.op = "createSale"
                   /\ response'.result \in {"products_not_found", "inactive_product"}
                   /\ UNCHANGED tables
              ELSE pc'[r] = "done" \/ req'[r].items = items]_vars

\* a sale was refused because of an inactive product
SaleOfInactiveProductRefused ==
    /\ response.op = "createSale" /\ response.result = "inactive_product"
    /\ sales = {} /\ sale_items = {}

DeleteCustomerBegin(r, id) ==
    /\ Free(r)
    /\ IF ~HasRow(customers, id)
       THEN Respond(r, [op |-> "deleteCustomer", result |-> "customer_not_found"])
       ELSE Goto(r, "dc_sales", [op |-> "deleteCustomer", id |-> id])
    /\ UNCHANGED <<tables, next_id>>

\* .from('sales').select('id').eq('customer_id', id).limit(1)
DeleteCustomerCheckSales(r, fail) ==
    /\ pc[r] = "dc_sales"
    /\ IF fail
       THEN Respond(r, [op |-> "deleteCustomer", result |-> "check_failed"])
       ELSE IF \E s \in sales : s.customer_id = req[r].id
       THEN Respond(r, [op |-> "deleteCustomer", result |-> "has_sales", id |-> req[r].id])
       ELSE Goto(r, "dc_delete", req[r])
    /\ UNCHANGED <<tables, next_id>>

\* delete from customers where id = ...: sales.customer_id is ON DELETE SET NULL
\* (an UPDATE of sales that changes neither payment_status nor amount_paid, so
\* update_customer_balance_on_sale_update does not fire) and
\* customer_payments.customer_id is ON DELETE CASCADE (the AFTER DELETE
\* triggers of customer_payments read a null NEW and change nothing)
DeleteCustomerDelete(r, fail) ==
    /\ pc[r] = "dc_delete"
    /\ IF fail
       THEN /\ Respond(r, [op |-> "deleteCustomer", result |-> "delete_failed"])
            /\ UNCHANGED <<customers, sales, customer_payments>>
       ELSE /\ customers' = {c \in customers : c.id # req[r].id}
            /\ sales' = {IF s.customer_id = req[r].id
                         THEN [s EXCEPT !.customer_id = NULL] ELSE s : s \in sales}
            /\ customer_payments' = {p \in customer_payments : p.customer_id # req[r].id}
            /\ Respond(r, [op |-> "deleteCustomer", result |-> "deleted", id |-> req[r].id])
    /\ UNCHANGED <<products, suppliers, inventory, stock_movements, sale_items,
                   purchases, purchase_items, next_id>>

(***************************************************************************)
(* Credit sales to customer 1, payments on them, and deletes of the        *)
(* customer.  Every sale is created with the customer.                     *)
(***************************************************************************)
NextCustomers ==
    \E r \in Requests :
        \/ /\ RoomFor("sale", {"cs_inventory", "cs_sale"}, MaxCreditSales)
           /\ \E data \in RollbackSaleInputs, items \in CreditSaleItems :
                  CreateSaleBegin(r, data, items)
        \/ CreateSaleCheckStock(r)
        \/ \E fail \in StoreOutcomes : CreateSaleInsertSale(r, fail)
        \/ \E fail \in StoreOutcomes : CreateSaleInsertItems(r, fail)
        \/ \E fail \in StoreOutcomes : CreateSaleRollback(r, fail)
        \/ /\ RoomFor("payment", {"rp_insert"}, MaxPayments)
           /\ \E paymentData \in CreditPaymentInputs : RecordPaymentBegin(r, paymentData)
        \/ \E fail \in StoreOutcomes : RecordPaymentInsert(r, fail)
        \/ \E id \in 1..MaxCustomers : DeleteCustomerBegin(r, id)
        \/ \E fail \in StoreOutcomes : DeleteCustomerCheckSales(r, fail)
        \/ \E fail \in StoreOutcomes : DeleteCustomerDelete(r, fail)

SpecCustomers == InitRollback /\ [][NextCustomers]_vars

\* C19: every sale, all of which are created with a customer, names a customer
\* that exists.
SalesKeepTheirCustomer ==
    \A s \in sales : s.customer_id # NULL /\ HasRow(customers, s.customer_id)

(***************************************************************************)
(* updatePurchasePaymentStatus, purchase.controller.ts                     *)
(***************************************************************************)
PaymentStatuses == {"pending", "partial", "paid"}

\* the checks on the body and the query for the purchase
UpdatePurchasePaymentStatusBegin(r, id, payment_status) ==
    /\ Free(r)
    /\ IF payment_status \notin PaymentStatuses
       THEN Respond(r, [op |-> "updatePurchasePaymentStatus", result |-> "invalid_status"])
       ELSE IF ~HasRow(purchases, id)
       THEN Respond(r, [op |-> "updatePurchasePaymentStatus",
                        result |-> "purchase_not_found"])
       ELSE Goto(r, "pps_update", [op |-> "updatePurchasePaymentStatus", id |-> id,
                                   payment_status |-> payment_status])
    /\ UNCHANGED <<tables, next_id>>

\* update purchases set payment_status = ... where id = ...; .single() turns
\* a missing row into an error
UpdatePurchasePaymentStatusUpdate(r, fail) ==
    /\ pc[r] = "pps_update"
    /\ IF fail \/ ~HasRow(purchases, req[r].id)
       THEN /\ Respond(r, [op |-> "updatePurchasePaymentStatus",
                           result |-> "update_failed"])
            /\ UNCHANGED purchases
       ELSE /\ purchases' = {IF p.id = req[r].id
                             THEN [p EXCEPT !.payment_status = req[r].payment_status]
                             ELSE p : p \in purchases}
            /\ Respond(r, [op |-> "updatePurchasePaymentStatus", result |-> "updated",
                           id |-> req[r].id])
    /\ UNCHANGED <<products, suppliers, inventory, stock_movements, customers, sales,
                   sale_items, purchase_items, customer_payments, next_id>>

(***************************************************************************)
(* Purchases of product 1 from an active supplier 1, an inactive supplier  *)
(* 2 and a supplier 3 that does not exist, with and without a payment      *)
(* status in the body, and updates of the status.                          *)
(***************************************************************************)
SupplierIds == {1, 2, 3}
SupplierPurchaseInputs ==
    [supplier_id : SupplierIds, payment_status : {"undefined"} \cup PaymentStatuses]
SupplierPurchaseItems == ItemLists({1}, {2}, {0})

InitSuppliers ==
    /\ products = {StockedProduct}
    /\ suppliers = {[id |-> 1, is_active |-> TRUE], [id |-> 2, is_active |-> FALSE]}
    /\ inventory = {[product_id |-> 1, quantity |-> 0]}
    /\ stock_movements = {}
    /\ customers = {}
    /\ sales = {}
    /\ sale_items = {}
    /\ purchases = {}
    /\ purchase_items = {}
    /\ customer_payments = {}
    /\ next_id = [FirstIds EXCEPT !.product = 2]
    /\ pc = [r \in Requests |-> "idle"]
    /\ req = [r \in Requests |-> NoRequest]
    /\ response = NoResponse

NextSuppliers ==
    \E r \in Requests :
        \/ /\ RoomFor("purchase", {"pu_products", "pu_purchase"}, MaxPurchases)
           /\ \E data \in SupplierPurchaseInputs, items \in SupplierPurchaseItems :
                  CreatePurchaseBegin(r, data, items)
        \/ CreatePurchaseCheckProducts(r)
        \/ \E fail \in StoreOutcomes : CreatePurchaseInsertPurchase(r, fail)
        \/ \E fail \in StoreOutcomes : CreatePurchaseInsertItems(r, fail)
        \/ \E fail \in StoreOutcomes : CreatePurchaseRollback(r, fail)
        \/ \E id \in 1..MaxPurchases, payment_status \in {"undefined", "partial", "paid"} :
               UpdatePurchasePaymentStatusBegin(r, id, payment_status)
        \/ \E fail \in StoreOutcomes : UpdatePurchasePaymentStatusUpdate(r, fail)

SpecSuppliers == InitSuppliers /\ [][NextSuppliers]_vars

\* C20: the first step of a purchase from a supplier that does not exist or is
\* inactive ends the request and changes no table; the purchase row a request
\* inserts has the payment status of its body, or pending when the body has
\* none; and the status of a purchase row changes only in the update of an
\* updatePurchasePaymentStatus request for that purchase.
PurchaseStatusAsSupplied ==
    [][/\ \A r \in Requests :
              \A data \in SupplierPurchaseInputs, items \in SupplierPurchaseItems :
                  (/\ \/ ~HasRow(suppliers, data.supplier_id)
                      \/ ~Row(suppliers, data.supplier_id).is_active
                   /\ CreatePurchaseBegin(r, data, items)) =>
                      /\ pc'[r] = "done"
                      /\ response'.result \in {"supplier_not_found", "supplier_inactive"}
                      /\ UNCHANGED tables
       /\ \A r \in Requests :
              (pc[r] = "pu_purchase" /\ pc'[r] = "pu_items") =>
                  /\ purchases' = purchases \cup {Row(purchases', req'[r].purchase_id)}
                  /\ ~HasRow(purchases, req'[r].purchase_id)
                  /\ Row(purchases', req'[r].purchase_id).payment_status =
                         (IF req[r].data.payment_status = "undefined" THEN "pending"
                          ELSE req[r].data.payment_status)
       /\ \A p \in purchases :
              (/\ HasRow(purchases', p.id)
               /\ Row(purchases', p.id).payment_status # p.payment_status) =>
                  \E r \in Requests :
                      /\ pc[r] = "pps_update" /\ pc'[r] = "done"
                      /\ req[r].id = p.id
                      /\ Row(purchases', p.id).payment_status = req[r].payment_status]_vars

\* a purchase created with the status partial in its body was accepted
PurchaseCreatedAsPartial ==
    /\ response.op = "createPurchase" /\ response.result = "created"
    /\ HasRow(purchases, response.purchase_id)
    /\ Row(purchases, response.purchase_id).payment_status = "partial"
    /\ \A r \in Requests : r # response.request => pc[r] = "idle"

\* C21: every sale_items row has exactly one stock movement that names it, and
\* that movement is of type sale, of the product of the item, and changes the
\* quantity by minus the quantity of the item.
OneMovementPerSaleItem ==
    \A i \in sale_items :
        LET ms == {m \in stock_movements : m.sale_item_id = i.id}
        IN  /\ Cardinality(ms) = 1
            /\ \A m \in ms : /\ m.movement_type = "sale"
                             /\ m.product_id = i.product_id
                             /\ m.quantity_change = -i.quantity

\* a sale of two items has been inserted, with its two movements
TwoSaleItemsMoved ==
    \E i, j \in sale_items :
        /\ i.id # j.id /\ i.sale_id = j.sale_id
        /\ \E m, n \in stock_movements : m.sale_item_id = i.id /\ n.sale_item_id = j.id

\* C22: the insert of the items of a purchase that is answered "created" gives
\* every item exactly one stock movement, of type purchase, of the product of
\* the item and of plus its quantity, and raises the stock of every product by
\* the quantities of the items that name it, whatever the stock was.
PurchaseAddsStock ==
    [][\A r \in Requests :
          (/\ pc[r] = "pu_items"
           /\ response' = [op |-> "createPurchase", result |-> "created",
                           purchase_id |-> req[r].purchase_id, request |-> r]) =>
              LET new == purchase_items' \ purchase_items
              IN  /\ new # {}
                  /\ new = {i \in purchase_items' : i.purchase_id = req[r].purchase_id}
                  /\ \A i \in new :
                         LET ms == {m \in stock_movements' : m.purchase_item_id = i.id}
                         IN  /\ Cardinality(ms) = 1
                             /\ ms \cap stock_movements = {}
                             /\ \A m \in ms : /\ m.movement_type = "purchase"
                                              /\ m.product_id = i.product_id
                                              /\ m.quantity_change = i.quantity
                  /\ \A p \in products :
                         StockOf(inventory', p.id) =
                             StockOf(inventory, p.id) +
                                 SumQuantity({i \in new : i.product_id = p.id})]_vars

\* a purchase of 2 units was accepted for a product whose stock was -1
PurchaseOnNegativeStock ==
    /\ response.op = "createPurchase" /\ response.result = "created"
    /\ \E p \in products :
           /\ StockOf(inventory, p.id) = 1
           /\ \E m \in stock_movements :
                  /\ m.product_id = p.id /\ m.movement_type = "purchase"
                  /\ m.quantity_change = 2
           /\ \E m \in stock_movements :
                  /\ m.product_id = p.id /\ m.movement_type = "adjustment"
                  /\ m.quantity_change = -1
           /\ Cardinality({m \in stock_movements : m.product_id = p.id}) = 2

(***************************************************************************)
(* A purchase and its deletion: purchases of product 1, which has 3 units  *)
(* in stock, and deletes of purchases.  No call on the store fails.        *)
(***************************************************************************)
PurchaseRoundTripItems == ItemLists({1}, {1, 2, 3}, {0})

NextPurchaseRoundTrip ==
    \E r \in Requests :
        \/ /\ RoomFor("purchase", {"pu_products", "pu_purchase"}, MaxPurchases)
           /\ \E data \in LedgerPurchaseInputs, items \in PurchaseRoundTripItems :
                  CreatePurchaseBegin(r, data, items)
        \/ CreatePurchaseCheckProducts(r)
        \/ CreatePurchaseInsertPurchase(r, FALSE)
        \/ CreatePurchaseInsertItems(r, FALSE)
        \/ CreatePurchaseRollback(r, FALSE)
        \/ \E id \in 1..MaxPurchases : DeletePurchaseBegin(r, id)
        \/ DeletePurchaseDelete(r, FALSE)

SpecPurchaseRoundTrip == InitRoundTrip /\ [][NextPurchaseRoundTrip]_vars

\* C23: the delete of a purchase that has its items succeeds, removes the
\* purchase, its items and their stock movements, and takes from every product
\* the quantity purchased.
DeletePurchaseRestoresStock ==
    [][\A r \in Requests :
          LET its == {i \in purchase_items : i.purchase_id = req[r].purchase_id}
          IN  (pc[r] = "dp_delete" /\ pc'[r] = "done" /\ its # {}) =>
                  /\ response'.result = "deleted"
                  /\ ~HasRow(purchases', req[r].purchase_id)
                  /\ purchase_items' \cap its = {}
                  /\ \A m \in stock_movements' : \A i \in its : m.purchase_item_id # i.id
                  /\ \A p \in products :
                         StockOf(inventory', p.id) =
                             StockOf(inventory, p.id) -
                                 SumQuantity({i \in its : i.product_id = p.id})]_vars

(***************************************************************************)
(* Movements of every origin: sales and purchases of product 1, which has  *)
(* 3 units in stock, deletes of them, and adjustment requests whose bodies *)
(* are adjustments or not, with and without a reason and item references.  *)
(***************************************************************************)
ProvenanceAdjustmentInputs ==
    [product_id : {1}, movement_type : {"adjustment", "sale", "purchase"},
     adjustment_reason : {NoReason, "damaged"}, quantity_change : {-1},
     sale_item_id : {NULL, ItemId(1, 1)}, purchase_item_id : {NULL, ItemId(1, 1)}]
ProvenanceItems == ItemLists({1}, {1}, {0})

NextProvenance ==
    \E r \in Requests :
        \/ /\ RoomFor("adjustment", {"sa_inventory", "sa_insert"}, MaxAdjustments + 1)
           /\ \E data \in ProvenanceAdjustmentInputs : CreateStockAdjustmentBegin(r, data)
        \/ CreateStockAdjustmentCheck(r)
        \/ \E fail \in StoreOutcomes : CreateStockAdjustmentInsert(r, fail)
        \/ /\ RoomFor("sale", {"cs_inventory", "cs_sale"}, MaxSales)
           /\ \E data \in LedgerSaleInputs, items \in ProvenanceItems :
                  CreateSaleBegin(r, data, items)
        \/ CreateSaleCheckStock(r)
        \/ \E fail \in StoreOutcomes : CreateSaleInsertSale(r, fail)
        \/ \E fail \in StoreOutcomes : CreateSaleInsertItems(r, fail)
        \/ \E fail \in StoreOutcomes : CreateSaleRollback(r, fail)
        \/ \E id \in 1..MaxSales : DeleteSaleBegin(r, id)
        \/ \E fail \in StoreOutcomes : DeleteSaleDelete(r, fail)
        \/ /\ RoomFor("purchase", {"pu_products", "pu_purchase"}, MaxPurchases)
           /\ \E data \in LedgerPurchaseInputs, items \in ProvenanceItems :
                  CreatePurchaseBegin(r, data, items)
        \/ CreatePurchaseCheckProducts(r)
        \/ \E fail \in StoreOutcomes : CreatePurchaseInsertPurchase(r, fail)
        \/ \E fail \in StoreOutcomes : CreatePurchaseInsertItems(r, fail)
        \/ \E fail \in StoreOutcomes : CreatePurchaseRollback(r, fail)
        \/ \E id \in 1..MaxPurchases : DeletePurchaseBegin(r, id)
        \/ \E fail \in StoreOutcomes : DeletePurchaseDelete(r, fail)

SpecProvenance == InitRoundTrip /\ [][NextProvenance]_vars

\* C24: a stock movement of type sale has a sale_item_id and no
\* purchase_item_id, one of type purchase has a purchase_item_id and no
\* sale_item_id, an adjustment has neither and has one of the reasons of the
\* enumeration, and a movement that is not an adjustment has no reason.
MovementProvenance ==
    \A m \in stock_movements :
        /\ m.movement_type \in {"sale", "purchase", "adjustment"}
        /\ m.movement_type = "sale" =>
               m.sale_item_id # NULL /\ m.purchase_item_id = NULL
        /\ m.movement_type = "purchase" =>
               m.purchase_item_id # NULL /\ m.sale_item_id = NULL
        /\ m.movement_type = "adjustment" =>
               /\ m.sale_item_id = NULL /\ m.purchase_item_id = NULL
               /\ m.adjustment_reason # NoReason
               /\ m.adjustment_reason \in AdjustmentReasons
        /\ m.movement_type # "adjustment" => m.adjustment_reason = NoReason

\* the delete of a sale that has an item was attempted while movements of the
\* three types exist
DeleteAttemptedWithAllMovements ==
    /\ response.op = "deleteSale" /\ response.result = "delete_failed"
    /\ ItemsOf(sale_items, response.sale_id) # {}
    /\ {m.movement_type : m \in stock_movements} = {"sale", "purchase", "adjustment"}

(***************************************************************************)
(* Sales of product 1, which has 3 units in stock, whose items have the    *)
(* quantities a body can carry: validateCreateSale does not look at the    *)
(* items, and sale_items.quantity is NUMERIC NOT NULL with no CHECK.       *)
(***************************************************************************)
AnyQuantityItems == ItemLists({1}, {-2, 0, 1}, {0})

NextAnyQuantity ==
    \E r \in Requests :
        \/ /\ RoomFor("sale", {"cs_inventory", "cs_sale"}, MaxSales + 1)
           /\ \E data \in LedgerSaleInputs, items \in AnyQuantityItems :
                  CreateSaleBegin(r, data, items)
        \/ CreateSaleCheckStock(r)
        \/ \E fail \in StoreOutcomes : CreateSaleInsertSale(r, fail)
        \/ \E fail \in StoreOutcomes : CreateSaleInsertItems(r, fail)
        \/ \E fail \in StoreOutcomes : CreateSaleRollback(r, fail)

SpecAnyQuantity == InitRoundTrip /\ [][NextAnyQuantity]_vars

\* C25: every sale_items row has a quantity above 0, every stock movement of
\* type sale a quantity_change below 0, and no product has more in stock than
\* the 3 units it had before the sales.
SaleQuantitiesPositive ==
    /\ \A i \in sale_items : i.quantity > 0
    /\ \A m \in stock_movements : m.movement_type = "sale" => m.quantity_change < 0
    /\ \A p \in products : StockOf(inventory, p.id) <= 3

(***************************************************************************)
(* Sales, purchases and adjustments of product 1 with no correction: the   *)
(* product starts with an inventory row of 0 and no movement; purchases    *)
(* add 1 unit, sales take 1 unit, and adjustments take 1 unit as damaged.  *)
(* No call on the store fails.                                             *)
(***************************************************************************)
NoCorrectionAdjustmentInputs ==
    [product_id : {1}, movement_type : {"adjustment"}, adjustment_reason : {"damaged"},
     quantity_change : {-1}, sale_item_id : {NULL}, purchase_item_id : {NULL}]

NextNoCorrection ==
    \E r \in Requests :
        \/ /\ RoomFor("adjustment", {"sa_inventory", "sa_insert"}, MaxAdjustments)
           /\ \E data \in NoCorrectionAdjustmentInputs : CreateStockAdjustmentBegin(r, data)
        \/ CreateStockAdjustmentCheck(r)
        \/ CreateStockAdjustmentInsert(r, FALSE)
        \/ /\ RoomFor("sale", {"cs_inventory", "cs_sale"}, MaxSales)
           /\ \E data \in LedgerSaleInputs, items \in ProvenanceItems :
                  CreateSaleBegin(r, data, items)
        \/ CreateSaleCheckStock(r)
        \/ CreateSaleInsertSale(r, FALSE)
        \/ CreateSaleInsertItems(r, FALSE)
        \/ /\ RoomFor("purchase", {"pu_products", "pu_purchase"}, MaxPurchases)
           /\ \E data \in LedgerPurchaseInputs, items \in ProvenanceItems :
                  CreatePurchaseBegin(r, data, items)
        \/ CreatePurchaseCheckProducts(r)
        \/ CreatePurchaseInsertPurchase(r, FALSE)
        \/ CreatePurchaseInsertItems(r, FALSE)

SpecNoCorrection == InitSuppliers /\ [][NextNoCorrection]_vars

\* C26: while no stock movement is a correction, no inventory row has a
\* quantity below 0.
StockStaysNonNegative ==
    (\A m \in stock_movements : m.adjustment_reason # "correction") =>
        \A x \in inventory : x.quantity >= 0

(***************************************************************************)
(* updateProduct and updateProductPrice, product.controller.ts.  A body is *)
(* a record of the fields it carries.                                      *)
(***************************************************************************)
Carries(body, field) == field \in DOMAIN body

\* updateData.x ?? existingProduct.x
OrExisting(body, field, existing) ==
    IF Carries(body, field) /\ body[field] # NoPrice THEN body[field] ELSE existing[field]

\* "Validate price relationships" of the two handlers, on the prices of the
\* body completed with those of the row that was read
PricesRefused(body, existing) ==
    LET purchasePrice  == OrExisting(body, "purchase_price", existing)
        retailPrice    == OrExisting(body, "retail_price", existing)
        wholesalePrice == IF Carries(body, "wholesale_price") THEN body.wholesale_price
                          ELSE existing.wholesale_price
    IN  \/ retailPrice < purchasePrice
        \/ wholesalePrice # NoPrice /\ wholesalePrice > retailPrice

\* update products set <the price fields of the body> where id = ...
WithPrices(row, body) ==
    [row EXCEPT !.purchase_price = IF Carries(body, "purchase_price")
                                   THEN body.purchase_price ELSE @,
                !.retail_price = IF Carries(body, "retail_price")
                                 THEN body.retail_price ELSE @,
                !.wholesale_price = IF Carries(body, "wholesale_price")
                                    THEN body.wholesale_price ELSE @]

\* updateProduct: the check on quantity, the query for the product and the
\* checks on the prices (the bodies carry no sku)
UpdateProductBegin(r, id, updateData) ==
    /\ Free(r)
    /\ IF Carries(updateData, "quantity") \/ Carries(updateData, "stock_quantity")
       THEN Respond(r, [op |-> "updateProduct", result |-> "quantity_not_allowed"])
       ELSE IF ~HasRow(products, id)
       THEN Respond(r, [op |-> "updateProduct", result |-> "product_not_found"])
       ELSE IF PricesRefused(updateData, Row(products, id))
       THEN Respond(r, [op |-> "updateProduct", result |-> "invalid_price"])
       ELSE Goto(r, "up_update", [op |-> "updateProduct", id |-> id,
                                  updateData |-> updateData])
    /\ UNCHANGED <<tables, next_id>>

\* updateProductPrice: the query for the product and the checks on the prices;
\* only the three prices are taken from the body
UpdateProductPriceBegin(r, id, body) ==
    /\ Free(r)
    /\ IF ~HasRow(products, id)
       THEN Respond(r, [op |-> "updateProductPrice", result |-> "product_not_found"])
       ELSE IF PricesRefused(body, Row(products, id))
       THEN Respond(r, [op |-> "updateProductPrice", result |-> "invalid_price"])
       ELSE Goto(r, "up_update", [op |-> "updateProductPrice", id |-> id,
                                  updateData |-> body])
    /\ UNCHANGED <<tables, next_id>>

\* the update of either handler; purchase_price and retail_price are NOT NULL,
\* and .single() turns a missing row into an error
UpdateProductUpdate(r, fail) ==
    /\ pc[r] = "up_update"
    /\ LET new == WithPrices(Row(products, req[r].id), req[r].updateData)
       IN  IF \/ fail
              \/ ~HasRow(products, req[r].id)
              \/ new.purchase_price = NoPrice
              \/ new.retail_price = NoPrice
           THEN /\ Respond(r, [op |-> req[r].op, result |-> "update_failed"])
                /\ UNCHANGED products
           ELSE /\ products' = {IF x.id = req[r].id THEN new ELSE x : x \in products}
                /\ Respond(r, [op |-> req[r].op, result |-> "updated", id |-> req[r].id])
    /\ UNCHANGED <<suppliers, inventory, stock_movements, customers, sales, sale_items,
                   purchases, purchase_items, customer_payments, next_id>>

(***************************************************************************)
(* Prices: product 1 is bought at 1 and sold at 3; products are created    *)
(* and their prices updated, one field at a time.                          *)
(***************************************************************************)
PricedProduct == [StockedProduct EXCEPT !.retail_price = 3]
PriceProductInputs ==
    [sku : {next_id.product}, is_active : {TRUE}, purchase_price : {1, 3},
     retail_price : {1, 3}, wholesale_price : {NoPrice, 2}, has_quantity : {FALSE}]
PriceBodies ==
    {[purchase_price |-> 3], [retail_price |-> 1], [wholesale_price |-> 2],
     [wholesale_price |-> NoPrice]}

InitPrices ==
    /\ products = {PricedProduct}
    /\ suppliers = {[id |-> 1, is_active |-> TRUE]}
    /\ inventory = {[product_id |-> 1, quantity |-> 0]}
    /\ stock_movements = {}
    /\ customers = {}
    /\ sales = {}
    /\ sale_items = {}
    /\ purchases = {}
    /\ purchase_items = {}
    /\ customer_payments = {}
    /\ next_id = [FirstIds EXCEPT !.product = 2]
    /\ pc = [r \in Requests |-> "idle"]
    /\ req = [r \in Requests |-> NoRequest]
    /\ response = NoResponse

NextPrices ==
    \E r \in Requests :
        \/ /\ RoomFor("product", {"cp_product"}, MaxProducts)
           /\ \E data \in PriceProductInputs : CreateProductBegin(r, data)
        \/ \E fail \in StoreOutcomes : CreateProductInsert(r, fail)
        \/ \E fail \in StoreOutcomes : CreateProductInventory(r, fail)
        \/ \E fail \in StoreOutcomes : CreateProductRollback(r, fail)
        \/ \E id \in 1..MaxProducts, updateData \in PriceBodies :
               UpdateProductBegin(r, id, updateData)
        \/ \E id \in 1..MaxProducts, body \in PriceBodies :
               UpdateProductPriceBegin(r, id, body)
        \/ \E fail \in StoreOutcomes : UpdateProductUpdate(r, fail)

SpecPrices == InitPrices /\ [][NextPrices]_vars

\* C27: every product is sold at no less than it is bought at, and its
\* wholesale price, when it has one, is no more than its retail price.
ProductPricesOrdered ==
    \A p \in products :
        /\ p.retail_price >= p.purchase_price
        /\ p.wholesale_price # NoPrice => p.wholesale_price <= p.retail_price

(***************************************************************************)
(* The catalogue and the stock: products are created, updated, repriced,   *)
(* activated and deactivated, with and without a quantity in the body,     *)
(* while adjustments move the stock.  Product 1 exists with a stock of 0.  *)
(***************************************************************************)
FrameProductInputs ==
    [sku : {next_id.product}, is_active : {TRUE}, purchase_price : {1}, retail_price : {1},
     wholesale_price : {NoPrice}, has_quantity : BOOLEAN]
FrameBodies == {[retail_price |-> 3], [retail_price |-> 3, quantity |-> 5]}
FrameAdjustmentInputs ==
    [product_id : 1..MaxProducts, movement_type : {"adjustment"},
     adjustment_reason : {"correction"}, quantity_change : {2},
     sale_item_id : {NULL}, purchase_item_id : {NULL}]

NextFrame ==
    \E r \in Requests :
        \/ /\ RoomFor("product", {"cp_product"}, MaxProducts)
           /\ \E data \in FrameProductInputs : CreateProductBegin(r, data)
        \/ \E fail \in StoreOutcomes : CreateProductInsert(r, fail)
        \/ \E fail \in StoreOutcomes : CreateProductInventory(r, fail)
        \/ \E fail \in StoreOutcomes : CreateProductRollback(r, fail)
        \/ \E id \in 1..MaxProducts, updateData \in FrameBodies :
               UpdateProductBegin(r, id, updateData)
        \/ \E id \in 1..MaxProducts, body \in FrameBodies :
               UpdateProductPriceBegin(r, id, body)
        \/ \E fail \in StoreOutcomes : UpdateProductUpdate(r, fail)
        \/ \E id \in 1..MaxProducts, is_active \in BOOLEAN :
               UpdateProductStatusBegin(r, id, is_active)
        \/ \E fail \in StoreOutcomes : UpdateProductStatusUpdate(r, fail)
        \/ /\ RoomFor("adjustment", {"sa_inventory", "sa_insert"}, MaxAdjustments)
           /\ \E data \in FrameAdjustmentInputs : CreateStockAdjustmentBegin(r, data)
        \/ CreateStockAdjustmentCheck(r)
        \/ \E fail \in StoreOutcomes : CreateStockAdjustmentInsert(r, fail)

SpecFrame == InitPrices /\ [][NextFrame]_vars

ProductLabels == {"cp_product", "cp_inventory", "cp_rollback", "up_update", "ps_update"}
ProductOps == {"createProduct", "updateProduct", "updateProductPrice", "updateProductStatus"}

\* C28: a step of createProduct, updateProduct, updateProductPrice or
\* updateProductStatus leaves every stock movement and every inventory row as
\* it was, and adds at most inventory rows of quantity 0; createProduct and
\* updateProduct with a quantity in the body end at once and change no table.
ProductRequestsLeaveStock ==
    [][/\ \A r \in Requests :
              (\/ pc[r] \in ProductLabels /\ pc'[r] # pc[r]
               \/ pc'[r] \in ProductLabels /\ pc'[r] # pc[r]
               \/ response'.request = r /\ response'.op \in ProductOps) =>
                  /\ stock_movements' = stock_movements
                  /\ inventory \subseteq inventory'
                  /\ \A x \in inventory' \ inventory : x.quantity = 0
       /\ \A r \in Requests :
              /\ \A data \in FrameProductInputs :
                     (data.has_quantity /\ CreateProductBegin(r, data)) =>
                         pc'[r] = "done" /\ UNCHANGED tables
              /\ \A id \in 1..MaxProducts, updateData \in FrameBodies :
                     (Carries(updateData, "quantity") /\ UpdateProductBegin(r, id, updateData)) =>
                         pc'[r] = "done" /\ UNCHANGED tables]_vars

(***************************************************************************)
(* Totals: sales of product 1 to customer 1 or to nobody, of one item of   *)
(* line_total 100 or 1000, with no discount or a discount of 500.          *)
(* validateCreateSale looks at subtotal, discount_amount and total_amount  *)
(* of the body, each taken alone; the handler computes the totals anew.    *)
(***************************************************************************)
TotalsSaleInputs ==
    [customer_id : {NULL, 1}, payment_method : {"undefined", "mpesa"},
     discount_amount : {Undefined, 500}]
TotalsSaleItems == ItemLists({1}, {1}, {100, 1000})

NextTotals ==
    \E r \in Requests :
        \/ /\ RoomFor("sale", {"cs_inventory", "cs_sale"}, MaxSales + 1)
           /\ \E data \in TotalsSaleInputs, items \in TotalsSaleItems :
                  CreateSaleBegin(r, data, items)
        \/ CreateSaleCheckStock(r)
        \/ \E fail \in StoreOutcomes : CreateSaleInsertSale(r, fail)
        \/ \E fail \in StoreOutcomes : CreateSaleInsertItems(r, fail)
        \/ \E fail \in StoreOutcomes : CreateSaleRollback(r, fail)

SpecTotals == InitRollback /\ [][NextTotals]_vars

RECURSIVE SumOfLineTotals(_)
SumOfLineTotals(rows) ==
    IF rows = {} THEN 0
    ELSE LET i == CHOOSE x \in rows : TRUE
         IN  i.line_total + SumOfLineTotals(rows \ {i})

\* C29: a sale that has its items has the sum of their line totals as its
\* subtotal; every sale has subtotal - discount_amount as its total, a total
\* of 0 or more, and no more paid than its total.
SaleTotalsNonNegative ==
    \A s \in sales :
        /\ ItemsOf(sale_items, s.id) # {} =>
               s.subtotal = SumOfLineTotals(ItemsOf(sale_items, s.id))
        /\ s.total_amount = s.subtotal - s.discount_amount
        /\ s.total_amount >= 0
        /\ s.total_amount - s.amount_paid >= 0

(***************************************************************************)
(* getCustomerOutstanding, payment.controller.ts                           *)
(***************************************************************************)
\* the query on customers
GetCustomerOutstandingBegin(r, customerId) ==
    /\ Free(r)
    /\ IF ~HasRow(customers, customerId)
       THEN Respond(r, [op |-> "getCustomerOutstanding", result |-> "not_found",
                        customer_id |-> customerId])
       ELSE Goto(r, "co_sales", [op |-> "getCustomerOutstanding",
                                 customer |-> Row(customers, customerId)])
    /\ UNCHANGED <<tables, next_id>>

\* unpaidSales.map(...): one entry of outstanding.unpaid_sales
UnpaidSaleEntry(sale) ==
    [id |-> sale.id, total_amount |-> sale.total_amount, amount_paid |-> sale.amount_paid,
     remaining_balance |-> sale.total_amount - sale.amount_paid,
     payment_status |-> sale.payment_status]

\* the query on sales, the totals and the answer
GetCustomerOutstandingSales(r, fail) ==
    /\ pc[r] = "co_sales"
    /\ LET customer   == req[r].customer
           unpaidSales == {s \in sales : /\ s.customer_id = customer.id
                                         /\ s.payment_status \in {"pending", "partial"}}
           totalOutstanding == SumRemaining(unpaidSales)
       IN  IF fail
           THEN Respond(r, [op |-> "getCustomerOutstanding", result |-> "fetch_failed",
                            customer_id |-> customer.id])
           ELSE Respond(r, [op |-> "getCustomerOutstanding", result |-> "success",
                            customer_id |-> customer.id,
                            current_balance |-> customer.current_balance,
                            credit_limit |-> customer.credit_limit,
                            available_credit |->
                                customer.credit_limit - customer.current_balance,
                            total_amount |-> totalOutstanding,
                            unpaid_sales_count |-> Cardinality(unpaidSales),
                            unpaid_sales |-> {UnpaidSaleEntry(s) : s \in unpaidSales}])
    /\ UNCHANGED <<tables, next_id>>

(***************************************************************************)
(* Outstanding: the requests of the credit scenario and, among them, reads *)
(* of what a customer owes.                                                *)
(***************************************************************************)
NextOutstanding ==
    \/ NextCredit
    \/ \E r \in Requests :
           \/ \E customerId \in 1..MaxCustomers : GetCustomerOutstandingBegin(r, customerId)
           \/ \E fail \in StoreOutcomes : GetCustomerOutstandingSales(r, fail)

SpecOutstanding == InitCredit /\ [][NextOutstanding]_vars

Answered == response.op = "getCustomerOutstanding" /\ response.result = "success"

\* What getCustomerOutstanding answers, but for its total: the available
\* credit is the limit less the balance, and the sales listed are those of the
\* customer that are pending or partial, each with what remains of it.
OutstandingProjection ==
    Answered =>
        /\ response.available_credit = response.credit_limit - response.current_balance
        /\ response.unpaid_sales =
               {UnpaidSaleEntry(s) : s \in {x \in sales : /\ x.customer_id = response.customer_id
                                                          /\ x.payment_status \in UnpaidStatuses}}
        /\ \A e \in response.unpaid_sales :
               e.remaining_balance = e.total_amount - e.amount_paid
        /\ response.total_amount = SumRemaining(response.unpaid_sales)

\* No step of getCustomerOutstanding changes a row.
OutstandingReadOnly ==
    [][(response'.op = "getCustomerOutstanding" \/ \E r \in Requests : pc'[r] = "co_sales"
            /\ pc[r] # "co_sales")
       => UNCHANGED <<tables, next_id>>]_vars

\* C30: what getCustomerOutstanding answers is the available credit, the
\* customer's pending and partial sales with what remains of each, and a total
\* that is the balance stored for the customer.
OutstandingMatchesBalance ==
    /\ OutstandingProjection
    /\ Answered /\ HasRow(customers, response.customer_id) =>
           response.total_amount = Row(customers, response.customer_id).current_balance

====
